---- MODULE Spec2Model ----
(***************************************************************************)
(* Agricast: weather acquisition and cache-aside layer.                    *)
(*                                                                         *)
(* The module models                                                       *)
(*   - the Firestore 'cache' collection and the two cache helpers          *)
(*     (services/nasa.js and services/weather.js),                         *)
(*   - the cached operations fetchNASAPowerData, the getWeather endpoint   *)
(*     and getWeatherWithInsights, one action per await continuation,      *)
(*   - the multi-station operations warmStationsWithRateLimit and          *)
(*     getMultipleStations,                                                *)
(*   - the pure function findDryWindows,                                   *)
(*   - the precipitation summary (generateFieldworkRecommendation),        *)
(*   - the satellite series: processNASAResponse, isValidDate and the      *)
(*     getNASAPowerData endpoint,                                          *)
(*   - the error mapping of the two upstream fetchers,                     *)
(*   - the bulletin parser of fetchECCCWeather,                            *)
(*   - the agronomic calculators calculateFrostRisk,                       *)
(*     calculateSprayConditions and calculateGDD,                          *)
(*   - the precipitation analyser: extractPrecipitationData, extractPoP    *)
(*     and extractPrecipitationAmounts,                                    *)
(*   - repeated parses of one bulletin,                                    *)
(*   - farmer registration: registerFarmer and generateUniqueUsername,     *)
(*   - updateCropData and the cropHistory archive.                         *)
(* Time is in whole seconds; Date.now() is the variable now.               *)
(***************************************************************************)
EXTENDS Integers, Sequences, FiniteSets, TLC

(***************************************************************************)
(* Bounds of the model                                                     *)
(***************************************************************************)
MaxTicks == 2        \* clock advances in one behaviour
MaxCalls == 3        \* cached operations started in one behaviour
MaxStations == 4     \* length of a multi-station input list
MaxPeriods == 5      \* length of a precipitation forecast
MaxDays == 3         \* days of a satellite series request and of its response
MaxText == 3         \* length of the text of a bulletin's temperature element
MaxParses == 2       \* parses of one bulletin
MaxRegistrations == 3 \* registerFarmer calls in one behaviour
MaxUpdates == 2      \* updateCropData calls in one behaviour

(***************************************************************************)
(* Program constants                                                       *)
(***************************************************************************)
NasaTtl == 86400         \* cacheData(cacheKey, processedData, 86400)
WeatherTtl == 300        \* weatherService.cacheData(cacheKey, weatherData, 300)
WeatherMaxAgeMs == 300000 \* hard-coded limit of weather.js getCachedData
Concurrency == 3         \* warmStationsWithRateLimit(stations, concurrency = 3)
DryPop == 30             \* probabilityOfPrecip.value < 30
DryTotal == 2            \* amounts.total < 2
MinWindow == 2           \* currentWindow.length >= 2

StationIds == {"MB/s0000193", "SK/s0000788"} \* PROVINCE/STATIONCODE pairs
Malformed == {"MBs0000193"}                 \* a pair without its slash
Outcomes == {"ok", "timeout", "notfound"}   \* how fetchECCCWeather ends
Pops == {29, 30}                            \* probabilityOfPrecip.value
NoTotal == -1                               \* amounts.total is null
Totals == {NoTotal, 0, 2}                   \* amounts.total

Reqs == {1, 2}                   \* request slots (concurrent invocations)
NasaKeys == {"nasa_p1"}          \* `nasa_${lat}_${lon}_${startDate}_${endDate}`
WeatherKeys == {"weather_MB_s1"} \* `weather_${province}_${station}`
Keys == NasaKeys \cup WeatherKeys
Deltas == {1, WeatherTtl, NasaTtl} \* amounts by which the clock advances

NoTtl == -1   \* a document without a ttl field (undefined)
NoDoc == [exists |-> FALSE, value |-> 0, timestamp |-> 0, ttl |-> 0]

VARIABLES
  now,        \* the clock, seconds
  ticks,      \* number of clock advances so far
  cache,      \* Firestore collection 'cache': key -> document
  nfetch,     \* upstream HTTP requests issued so far; request n returns value n
  ncalls,     \* cached operations started so far
  req,        \* per slot: the running invocation
  storeOk,    \* whether the store operation awaited by the last step succeeded
  lastPut,    \* per key: the arguments of the last cacheData that landed
  lastFinished, \* summary of the most recently finished call
  stations,   \* input list of a multi-station operation
  mop,        \* the multi-station operation running: "warm" or "multi"
  wpc,        \* its position
  wi,         \* loop variable i of warmStationsWithRateLimit
  inflight,   \* positions of the list whose upstream fetch is in flight
  outcome,    \* per position: how its upstream fetch ended
  promises,   \* per position: the settled promise of the list element
  results,    \* the list the operation returns
  forecast,   \* input of findDryWindows: the precipitation forecast
  dryWindows, \* its return value
  dpc,        \* whether it has been applied
  recommendation, \* status of summary.fieldworkRecommendation
  requestedDays,  \* satellite series: number of days startDate..endDate
  precipData,     \* data.properties.parameter.PRECTOTCORR: day key -> value
  processed,      \* return value of processNASAResponse
  ppc,            \* whether processNASAResponse has been applied
  dateStr,        \* argument of isValidDate
  valid,          \* its return value
  vpc,            \* whether it has been applied
  entry,          \* how the satellite series operation is entered
  startDate,      \* its startDate argument
  endDate,        \* its endDate argument
  coordsOk,       \* whether lat and lon pass the endpoint's range check
  epc,            \* position of the satellite series operation
  httpCalls,      \* upstream requests issued: their start and end dates
  cacheWrites,    \* cache keys written by the operation
  reply,          \* HTTP status the endpoint answers with (0: none)
  fetcher,        \* the upstream fetcher that fails: "station" or "satellite"
  failure,        \* the error axios (or the parser) throws
  thrown,         \* the error the fetcher throws to its caller
  httpReply,      \* the answer of the endpoint around the fetcher
  fpc,            \* position of the failing call
  bulletin,       \* the parsed XML bulletin (result.siteData)
  snapshot,       \* what fetchECCCWeather returns or throws
  bpc,            \* whether the bulletin has been processed
  weather,        \* the snapshot handed to a calculator
  risk,           \* return value of calculateFrostRisk
  conditions,     \* return value of calculateSprayConditions
  gddArgs,        \* arguments of calculateGDD
  gdd,            \* its return value
  cpc,            \* whether the calculator has been applied
  period,         \* a forecast element of the bulletin, as xml2js delivers it
  pop,            \* return value of extractPoP
  amounts,        \* return value of extractPrecipitationAmounts
  xpc,            \* whether the element has been analysed
  parses,         \* the results of the parses of one bulletin, with their times
  usernames,      \* Firestore collection 'usernames': username -> uid
  farmers,        \* Firestore collection 'farmers': uid -> username of the profile
  reg,            \* per uid: the registerFarmer call in progress
  nregs,          \* registerFarmer calls started so far
  gen,            \* the generateUniqueUsername call
  farm,           \* farmers/{farmerId}: the profile's farmDetails
  cropHistory,    \* farmers/{farmerId}/cropHistory: year -> archive
  wallYear,       \* the year of the server clock
  nupdates,       \* updateCropData calls so far
  lastUpdate      \* the last updateCropData call: arguments, state before, end

cacheVars == <<now, ticks, cache, nfetch, ncalls, req, storeOk, lastPut, lastFinished>>
multiVars == <<stations, mop, wpc, wi, inflight, outcome, promises, results>>
dryVars == <<forecast, dryWindows, dpc>>
recVars == <<recommendation>>
procVars == <<requestedDays, precipData, processed, ppc>>
dateVars == <<dateStr, valid, vpc>>
entryVars == <<entry, startDate, endDate, coordsOk, epc, httpCalls, cacheWrites, reply>>
errVars == <<fetcher, failure, thrown, httpReply, fpc>>
bulletinVars == <<bulletin, snapshot, bpc>>
calcVars == <<weather, risk, conditions, gddArgs, gdd, cpc>>
precipVars == <<period, pop, amounts, xpc>>
authVars == <<usernames, farmers, reg, nregs>>
cropVars == <<farm, cropHistory, wallYear, nupdates, lastUpdate>>
lateVars == <<precipVars, parses, authVars, gen, cropVars>>
vars == <<cacheVars, multiVars, dryVars, recVars, procVars, dateVars, entryVars,
          errVars, bulletinVars, calcVars, lateVars>>

\* the parts of the state that belong to the satellite series, the error
\* mapping, the bulletin parser and the calculators, before any of them runs
RecIdle == recommendation = "none"

ProcIdle ==
  /\ requestedDays = 0
  /\ precipData = <<>>
  /\ processed = <<>>
  /\ ppc = "idle"

DateIdle ==
  /\ dateStr = <<>>
  /\ valid = FALSE
  /\ vpc = "idle"

EntryIdle ==
  /\ entry = "none"
  /\ startDate = <<>>
  /\ endDate = <<>>
  /\ coordsOk = TRUE
  /\ epc = "idle"
  /\ httpCalls = <<>>
  /\ cacheWrites = {}
  /\ reply = 0

ErrIdle ==
  /\ fetcher = "none"
  /\ failure = <<>>
  /\ thrown = <<>>
  /\ httpReply = <<>>
  /\ fpc = "idle"

BulletinIdle ==
  /\ bulletin = <<>>
  /\ snapshot = <<>>
  /\ bpc = "idle"

CalcIdle ==
  /\ weather = <<>>
  /\ risk = <<>>
  /\ conditions = <<>>
  /\ gddArgs = <<>>
  /\ gdd = 0
  /\ cpc = "idle"

DerivedIdle ==
  /\ ProcIdle /\ DateIdle /\ EntryIdle /\ ErrIdle /\ BulletinIdle /\ CalcIdle

derivedVars == <<procVars, dateVars, entryVars, errVars, bulletinVars, calcVars>>

\* the parts of the state that belong to the precipitation analyser, before
\* it runs
PrecipIdle ==
  /\ period = <<>>
  /\ pop = <<>>
  /\ amounts = <<>>
  /\ xpc = "idle"

AuthIdle ==
  /\ usernames = <<>>
  /\ farmers = <<>>
  /\ reg = <<>>
  /\ nregs = 0

CropIdle ==
  /\ farm = <<>>
  /\ cropHistory = <<>>
  /\ wallYear = 0
  /\ nupdates = 0
  /\ lastUpdate = <<>>

LateIdle == PrecipIdle /\ parses = <<>> /\ AuthIdle /\ gen = <<>> /\ CropIdle

(***************************************************************************)
(* CacheStore: the two cache helpers                                       *)
(***************************************************************************)
Doc(v, ts, ttl) == [exists |-> TRUE, value |-> v, timestamp |-> ts, ttl |-> ttl]

Miss == [kind |-> "miss", value |-> 0]
Thrown == [kind |-> "throw", value |-> 0]

\* nasa.js: age = (Date.now() - timestamp) / 1000; age > data.ttl.
\* A comparison with an undefined ttl is false.
NasaExpiredMs(doc, t) == doc.ttl # NoTtl /\ (t - doc.timestamp) * 1000 > doc.ttl
NasaExpired(doc, t) == doc.ttl # NoTtl /\ (t - doc.timestamp) > doc.ttl

\* weather.js: (Date.now() - timestamp) > 300000, in milliseconds.
WeatherExpiredSec(doc, t) == (t - doc.timestamp) > WeatherMaxAgeMs
WeatherExpired(doc, t) == (t - doc.timestamp) * 1000 > WeatherMaxAgeMs

\* catch (error) { return null } of getCachedData, both files: a failed
\* read or delete makes the lookup return null.
CacheReadRethrow == Thrown
CacheReadCatch == Miss

\* nasa.js getCachedData up to its first return or its delete.
NasaGetCachedData(doc, t, ok) ==
  IF ~ok THEN CacheReadCatch
  ELSE IF ~doc.exists THEN Miss
  ELSE IF NasaExpired(doc, t) THEN [kind |-> "expired", value |-> 0]
  ELSE [kind |-> "hit", value |-> doc.value]

\* weather.js getCachedData up to its first return or its delete.
WeatherGetCachedData(doc, t, ok) ==
  IF ~ok THEN CacheReadCatch
  ELSE IF ~doc.exists THEN Miss
  ELSE IF WeatherExpired(doc, t) THEN [kind |-> "expired", value |-> 0]
  ELSE [kind |-> "hit", value |-> doc.value]

\* .doc(key).delete() of the lazy expiry: the document at the key goes,
\* whatever it is by now; a failed delete leaves it.
CacheDelete(old, ok) == IF ok THEN NoDoc ELSE old

\* nasa.js cacheData: set({value, timestamp, ttl}) overwrites the document;
\* a failed set is caught and leaves the document.
NasaCacheDataMerge(old, data, ts, ttlSeconds, ok) ==
  IF ~ok THEN old
  ELSE IF old.exists THEN [old EXCEPT !.value = data]
  ELSE Doc(data, ts, ttlSeconds)
NasaCacheDataMs(old, data, ts, ttlSeconds, ok) ==
  IF ok THEN Doc(data, ts, ttlSeconds * 1000) ELSE old
NasaCacheData(old, data, ts, ttlSeconds, ok) ==
  IF ok THEN Doc(data, ts, ttlSeconds) ELSE old

\* weather.js cacheData(key, value): two parameters, the ttl argument of the
\* caller is dropped; set({value, timestamp: serverTimestamp()}).
WeatherCacheData(old, value, ttlArg, t, ok) ==
  IF ok THEN Doc(value, t, NoTtl) ELSE old

(***************************************************************************)
(* Invocations                                                             *)
(***************************************************************************)
Error == -1   \* result of an invocation that threw or answered with an error
NoPut == [exists |-> FALSE, value |-> 0, at |-> 0, ttl |-> 0]
NoCall == [op |-> "none", key |-> "", stored |-> NoDoc, issued |-> 0]

\* fetchId: the upstream request this invocation issued (0: none);
\* ts: the Timestamp.now() taken by cacheData; lookup: what the cache lookup
\* returned; result: what the invocation returned (0: nothing yet);
\* wrote: its cacheData landed.
IdleReq ==
  [op |-> "none", key |-> "", pc |-> "idle", fetchId |-> 0, ts |-> 0,
   lookup |-> "none", result |-> 0, wrote |-> FALSE]

NewReq(op, k, pc) == [IdleReq EXCEPT !.op = op, !.key = k, !.pc = pc]

\* the document the invocation's cacheData writes
Written(q) == Doc(q.fetchId, q.ts, IF q.op = "nasa" THEN NasaTtl ELSE NoTtl)

Summary(q) ==
  [op |-> q.op, key |-> q.key,
   stored |-> IF q.wrote THEN Written(q) ELSE NoDoc,
   issued |-> IF q.fetchId > 0 THEN 1 ELSE 0]

Free(r) == req[r].pc \in {"idle", "done"}
Quiet == \A r \in Reqs : Free(r)

CacheInit ==
  /\ now = 0
  /\ ticks = 0
  /\ cache = [k \in Keys |-> NoDoc]
  /\ nfetch = 0
  /\ ncalls = 0
  /\ req = [r \in Reqs |-> IdleReq]
  /\ storeOk = TRUE
  /\ lastPut = [k \in Keys |-> NoPut]
  /\ lastFinished = NoCall

\* the clock advances
Tick(d) ==
  /\ ticks < MaxTicks
  /\ ticks' = ticks + 1
  /\ now' = now + d
  /\ UNCHANGED <<cache, nfetch, ncalls, req, storeOk, lastPut, lastFinished>>

\* an invocation starts in the lowest free slot
Start(r, op, k, pc) ==
  /\ Free(r)
  /\ \A r2 \in Reqs : r2 < r => ~Free(r2)
  /\ ncalls < MaxCalls
  /\ ncalls' = ncalls + 1
  /\ req' = [req EXCEPT ![r] = NewReq(op, k, pc)]

\* the continuation of the cache read: hit, expired, miss or thrown; on a
\* miss the caller goes on to issue its upstream request
AfterLookup(q, out) ==
  CASE out.kind = "hit" ->
         [q EXCEPT !.pc = "done", !.lookup = "hit", !.result = out.value]
    [] out.kind = "expired" -> [q EXCEPT !.pc = "del", !.lookup = "pending"]
    [] out.kind = "miss" ->
         [q EXCEPT !.pc = "fetch", !.lookup = "absent", !.fetchId = nfetch + 1]
    [] OTHER ->
         [q EXCEPT !.pc = "done", !.lookup = "thrown", !.result = Error]

Finished(q) == IF q.pc = "done" THEN Summary(q) ELSE lastFinished
Issued(q) == IF q.pc = "fetch" THEN nfetch + 1 ELSE nfetch

\* await getCachedData: the read of the document resolves
Lookup(r, out, ok) ==
  LET q == AfterLookup(req[r], out) IN
  /\ req' = [req EXCEPT ![r] = q]
  /\ storeOk' = ok
  /\ nfetch' = Issued(q)
  /\ lastFinished' = Finished(q)
  /\ UNCHANGED <<now, ticks, cache, ncalls, lastPut>>

\* the delete of the expired document resolves and getCachedData returns
LazyDelete(r, ok) ==
  LET q == AfterLookup(req[r], IF ok THEN Miss ELSE CacheReadCatch) IN
  /\ cache' = [cache EXCEPT ![req[r].key] = CacheDelete(@, ok)]
  /\ req' = [req EXCEPT ![r] = q]
  /\ storeOk' = ok
  /\ nfetch' = Issued(q)
  /\ lastFinished' = Finished(q)
  /\ UNCHANGED <<now, ticks, ncalls, lastPut>>

\* the set of cacheData resolves
Put(r, q, d, ttlArg, ok) ==
  /\ cache' = [cache EXCEPT ![req[r].key] = d]
  /\ lastPut' = IF ok
                THEN [lastPut EXCEPT ![req[r].key] =
                        [exists |-> TRUE, value |-> q.fetchId, at |-> q.ts, ttl |-> ttlArg]]
                ELSE lastPut
  /\ req' = [req EXCEPT ![r] = q]
  /\ storeOk' = ok
  /\ lastFinished' = Finished(q)
  /\ UNCHANGED <<now, ticks, nfetch, ncalls>>

(***************************************************************************)
(* fetchNASAPowerData (services/nasa.js)                                   *)
(***************************************************************************)
FetchNASAPowerData(r, k) ==
  /\ Start(r, "nasa", k, "get")
  /\ UNCHANGED <<now, ticks, cache, nfetch, storeOk, lastPut, lastFinished>>

\* await getCachedData(cacheKey)
NasaGet(r) ==
  /\ req[r].op = "nasa" /\ req[r].pc = "get"
  /\ \E ok \in BOOLEAN :
       Lookup(r, NasaGetCachedData(cache[req[r].key], now, ok), ok)

\* await ...delete() inside getCachedData
NasaDelete(r) ==
  /\ req[r].op = "nasa" /\ req[r].pc = "del"
  /\ \E ok \in BOOLEAN : LazyDelete(r, ok)

\* fetchNASAPowerData with a catch block that stores a placeholder for the
\* failed request before rethrowing
NasaResponseCachesError(r) ==
  /\ req[r].op = "nasa" /\ req[r].pc = "fetch"
  /\ \E ok \in BOOLEAN :
       LET q == IF ok
                THEN [req[r] EXCEPT !.pc = "set", !.ts = now]
                ELSE [req[r] EXCEPT !.pc = "done", !.result = Error] IN
       /\ req' = [req EXCEPT ![r] = q]
       /\ lastFinished' = Finished(q)
       /\ cache' = IF ok THEN cache
                   ELSE [cache EXCEPT ![req[r].key] = Doc(Error, now, NasaTtl)]
  /\ UNCHANGED <<now, ticks, nfetch, ncalls, storeOk, lastPut>>

\* await axios.get(url) settles; on success processNASAResponse runs and
\* cacheData takes Timestamp.now() and issues the set
NasaResponse(r) ==
  /\ req[r].op = "nasa" /\ req[r].pc = "fetch"
  /\ \E ok \in BOOLEAN :
       LET q == IF ok
                THEN [req[r] EXCEPT !.pc = "set", !.ts = now]
                ELSE [req[r] EXCEPT !.pc = "done", !.result = Error] IN
       /\ req' = [req EXCEPT ![r] = q]
       /\ lastFinished' = Finished(q)
  /\ UNCHANGED <<now, ticks, cache, nfetch, ncalls, storeOk, lastPut>>

\* await cacheData(cacheKey, processedData, 86400); return processedData
NasaSet(r) ==
  /\ req[r].op = "nasa" /\ req[r].pc = "set"
  /\ \E ok \in BOOLEAN :
       Put(r, [req[r] EXCEPT !.pc = "done", !.wrote = ok, !.result = req[r].fetchId],
           NasaCacheData(cache[req[r].key], req[r].fetchId, req[r].ts, NasaTtl, ok),
           NasaTtl, ok)

(***************************************************************************)
(* exports.getWeather (index.js): cache-aside around fetchECCCWeather      *)
(***************************************************************************)
GetWeather(r, k) ==
  /\ Start(r, "weather", k, "get")
  /\ UNCHANGED <<now, ticks, cache, nfetch, storeOk, lastPut, lastFinished>>

\* await weatherService.getCachedData(cacheKey)
WeatherGet(r) ==
  /\ req[r].op = "weather" /\ req[r].pc = "get"
  /\ \E ok \in BOOLEAN :
       Lookup(r, WeatherGetCachedData(cache[req[r].key], now, ok), ok)

\* await ...delete() inside getCachedData
WeatherDelete(r) ==
  /\ req[r].op = "weather" /\ req[r].pc = "del"
  /\ \E ok \in BOOLEAN : LazyDelete(r, ok)

\* await weatherService.fetchECCCWeather settles. On success cacheData is
\* called without await and res.json sends the response: the invocation has
\* answered while its set is still on its way.
WeatherResponse(r) ==
  /\ req[r].op = "weather" /\ req[r].pc = "fetch"
  /\ \E ok \in BOOLEAN :
       LET q == IF ok
                THEN [req[r] EXCEPT !.pc = "set", !.result = req[r].fetchId]
                ELSE [req[r] EXCEPT !.pc = "done", !.result = Error] IN
       /\ req' = [req EXCEPT ![r] = q]
       /\ lastFinished' = Finished(q)
  /\ UNCHANGED <<now, ticks, cache, nfetch, ncalls, storeOk, lastPut>>

\* the set of the un-awaited cacheData lands, stamped by the server, or fails
WeatherSet(r) ==
  /\ req[r].op = "weather" /\ req[r].pc = "set"
  /\ \E ok \in BOOLEAN :
       Put(r, [req[r] EXCEPT !.pc = "done", !.wrote = ok, !.ts = now],
           WeatherCacheData(cache[req[r].key], req[r].fetchId, WeatherTtl, now, ok),
           WeatherTtl, ok)

(***************************************************************************)
(* getWeatherWithInsights (services/weather.js and the index.js endpoint): *)
(* both call fetchECCCWeather directly                                     *)
(***************************************************************************)
GetWeatherWithInsights(r, k) ==
  /\ Free(r)
  /\ \A r2 \in Reqs : r2 < r => ~Free(r2)
  /\ ncalls < MaxCalls
  /\ ncalls' = ncalls + 1
  /\ req' = [req EXCEPT ![r] = [NewReq("insights", k, "fetch") EXCEPT
                                   !.fetchId = nfetch + 1]]
  /\ nfetch' = nfetch + 1
  /\ UNCHANGED <<now, ticks, cache, storeOk, lastPut, lastFinished>>

\* await fetchECCCWeather settles; the snapshot (or the error) is returned
InsightsResponse(r) ==
  /\ req[r].op = "insights" /\ req[r].pc = "fetch"
  /\ \E ok \in BOOLEAN :
       LET q == [req[r] EXCEPT !.pc = "done",
                               !.result = IF ok THEN req[r].fetchId ELSE Error] IN
       /\ req' = [req EXCEPT ![r] = q]
       /\ lastFinished' = Finished(q)
  /\ UNCHANGED <<now, ticks, cache, nfetch, ncalls, storeOk, lastPut>>

(***************************************************************************)
(* Multi-station operations (scheduled/cacheWarmer.js, index.js)           *)
(***************************************************************************)
Min(a, b) == IF a < b THEN a ELSE b

SeqsUpTo(S, n) == UNION {[1..m -> S] : m \in 0..n}

\* the message of the Error fetchECCCWeather throws
ErrMessage(o) ==
  IF o = "timeout" THEN "Weather service timeout - ECCC may be slow to respond"
  ELSE "Invalid location or station code"

NoValue == [status |-> "none", station |-> "", error |-> ""]
Pending == [status |-> "pending", value |-> NoValue, reason |-> NoValue]
Fulfilled(v) == [status |-> "fulfilled", value |-> v, reason |-> NoValue]
Rejected(e) == [status |-> "rejected", value |-> NoValue, reason |-> e]

\* stations.slice(i, i + concurrency), as positions 1..n of the list
BatchShort(n, i, c) == {j \in 1..n : i < j /\ j <= i + c - 1}
Batch(n, i, c) == {j \in 1..n : i < j /\ j <= i + c}

\* fetchECCCWeather(...).then(...).catch(...): the batch promise of a station
\* is fulfilled either way, with the record of its handler
WarmPromiseNoCatch(st, o) ==
  IF o = "ok"
  THEN Fulfilled([status |-> "fulfilled", station |-> st, error |-> ""])
  ELSE Rejected([status |-> "thrown", station |-> "", error |-> ErrMessage(o)])
WarmPromise(st, o) ==
  IF o = "ok"
  THEN Fulfilled([status |-> "fulfilled", station |-> st, error |-> ""])
  ELSE Fulfilled([status |-> "rejected", station |-> st, error |-> ErrMessage(o)])

\* batchResults.map(r => r.status === 'fulfilled' ? r.value : r.reason)
SettledValue(p) == IF p.status = "fulfilled" THEN p.value ELSE p.reason

\* fetchECCCWeather(province, station).catch(err => ({station: s, error}))
MultiPromise(st, o) ==
  IF o = "ok"
  THEN Fulfilled([status |-> "data", station |-> st, error |-> ""])
  ELSE Fulfilled([status |-> "error", station |-> st, error |-> ErrMessage(o)])

\* Promise.resolve({station: s, error: 'Invalid format...'}) of a bad pair
MultiInvalid(st) ==
  Fulfilled([status |-> "error", station |-> st,
             error |-> "Invalid format. Use PROVINCE/STATIONCODE."])

\* the values of the positions in B, in list order
RECURSIVE InOrder(_, _, _)
InOrder(ps, j, hi) ==
  IF j > hi THEN <<>> ELSE <<SettledValue(ps[j])>> \o InOrder(ps, j + 1, hi)

MultiIdle ==
  /\ mop = "none"
  /\ wpc = "idle"
  /\ wi = 0
  /\ inflight = {}
  /\ outcome = [j \in 1..Len(stations) |-> "none"]
  /\ promises = [j \in 1..Len(stations) |-> Pending]
  /\ results = <<>>

MultiInit ==
  /\ stations \in SeqsUpTo(StationIds \cup Malformed, MaxStations)
  /\ MultiIdle

\* warmStationsWithRateLimit(stations, 3) is called; its stations are
\* objects with a province and a station
WarmStationsWithRateLimit ==
  /\ wpc = "idle"
  /\ \A j \in 1..Len(stations) : stations[j] \in StationIds
  /\ mop' = "warm"
  /\ wpc' = "loop"
  /\ UNCHANGED <<stations, wi, inflight, outcome, promises, results>>

\* for (i ...; i < stations.length; ...): batch.map starts the fetches of the
\* batch; await Promise.allSettled(batchPromises)
WarmBatch ==
  /\ mop = "warm" /\ wpc = "loop"
  /\ wi < Len(stations)
  /\ inflight' = Batch(Len(stations), wi, Concurrency)
  /\ wpc' = "await"
  /\ UNCHANGED <<stations, mop, wi, outcome, promises, results>>

\* the fetch of position j settles and its handlers run
FetchSettles(j) ==
  /\ j \in inflight
  /\ \E o \in Outcomes :
       /\ outcome' = [outcome EXCEPT ![j] = o]
       /\ promises' = [promises EXCEPT ![j] =
                         IF mop = "warm" THEN WarmPromise(stations[j], o)
                         ELSE MultiPromise(stations[j], o)]
  /\ inflight' = inflight \ {j}
  /\ UNCHANGED <<stations, mop, wpc, wi, results>>

\* Promise.allSettled resolves: results.push(...); then the pause between
\* batches, or the next iteration
WarmBatchSettled ==
  /\ mop = "warm" /\ wpc = "await"
  /\ \A j \in Batch(Len(stations), wi, Concurrency) : promises[j].status # "pending"
  /\ results' = results \o InOrder(promises, wi + 1,
                                   wi + Cardinality(Batch(Len(stations), wi, Concurrency)))
  /\ IF wi + Concurrency < Len(stations)
     THEN wpc' = "pause" /\ wi' = wi
     ELSE wpc' = "loop" /\ wi' = wi + Concurrency
  /\ UNCHANGED <<stations, mop, inflight, outcome, promises>>

\* the 1-second timer fires; i += concurrency
WarmPause ==
  /\ mop = "warm" /\ wpc = "pause"
  /\ wi' = wi + Concurrency
  /\ wpc' = "loop"
  /\ UNCHANGED <<stations, mop, inflight, outcome, promises, results>>

\* the loop ends; return results
WarmReturn ==
  /\ mop = "warm" /\ wpc = "loop"
  /\ wi >= Len(stations)
  /\ wpc' = "done"
  /\ UNCHANGED <<stations, mop, wi, inflight, outcome, promises, results>>

\* exports.getMultipleStations: stationPairs.map starts a fetch for every
\* well-formed pair at once; await Promise.all(promises)
GetMultipleStations ==
  /\ wpc = "idle"
  /\ Len(stations) > 0
  /\ mop' = "multi"
  /\ wpc' = "await"
  /\ inflight' = {j \in 1..Len(stations) : stations[j] \in StationIds}
  /\ promises' = [j \in 1..Len(stations) |->
                    IF stations[j] \in StationIds THEN Pending
                    ELSE MultiInvalid(stations[j])]
  /\ UNCHANGED <<stations, wi, outcome, results>>

\* Promise.all resolves; res.json(results)
MultiSettled ==
  /\ mop = "multi" /\ wpc = "await"
  /\ \A j \in 1..Len(stations) : promises[j].status # "pending"
  /\ results' = InOrder(promises, 1, Len(stations))
  /\ wpc' = "done"
  /\ UNCHANGED <<stations, mop, wi, inflight, outcome, promises>>

(***************************************************************************)
(* findDryWindows (services/weather.js)                                    *)
(***************************************************************************)
Periods == [pop : Pops, total : Totals]

\* forecast.probabilityOfPrecip.value < 30 &&
\*   (!forecast.amounts.total || forecast.amounts.total < 2)
IsDryLe(f) == f.pop <= DryPop /\ (f.total = NoTotal \/ f.total = 0 \/ f.total < DryTotal)
IsDry(f) == f.pop < DryPop /\ (f.total = NoTotal \/ f.total = 0 \/ f.total < DryTotal)

NoWindow == [open |-> FALSE, start |-> 0, length |-> 0]

\* the window pushed to dryWindows; startPeriod and endPeriod are the
\* positions whose period label is copied
Window(cur, end) ==
  [start |-> cur.start, startPeriod |-> cur.start, length |-> cur.length,
   end |-> end, endPeriod |-> end]

\* the forEach over the forecast (index from 0) and the check after it
RECURSIVE DryScan(_, _, _, _)
DryScan(fs, index, cur, out) ==
  IF index >= Len(fs)
  THEN IF cur.open /\ cur.length >= MinWindow
       THEN Append(out, Window(cur, Len(fs) - 1))
       ELSE out
  ELSE IF IsDry(fs[index + 1])
       THEN DryScan(fs, index + 1,
                    IF ~cur.open
                    THEN [open |-> TRUE, start |-> index, length |-> 1]
                    ELSE [cur EXCEPT !.length = @ + 1],
                    out)
       ELSE DryScan(fs, index + 1, NoWindow,
                    IF cur.open /\ cur.length >= MinWindow
                    THEN Append(out, Window(cur, index - 1))
                    ELSE out)

findDryWindows(fs) == DryScan(fs, 0, NoWindow, <<>>)

DryIdle ==
  /\ dryWindows = <<>>
  /\ dpc = "idle"

DryInit ==
  /\ forecast \in SeqsUpTo(Periods, MaxPeriods)
  /\ DryIdle

\* findDryWindows(precipitationForecasts) is applied
FindDryWindows ==
  /\ dpc = "idle"
  /\ dryWindows' = findDryWindows(forecast)
  /\ dpc' = "done"
  /\ UNCHANGED forecast

(***************************************************************************)
(* enhanceWeatherWithPrecipitation and generateFieldworkRecommendation     *)
(* (services/weather.js)                                                   *)
(***************************************************************************)
Next48Hours == 4        \* forecasts.slice(0, 4)
SignificantTotal == 10  \* f.amounts.total > 10
RainTotals == {NoTotal, 0, 10, 11}  \* amounts.total around the threshold
RainPeriods == [pop : Pops, total : RainTotals]

\* f.amounts.total && f.amounts.total > 10
SignificantRainGe(f) == f.total # NoTotal /\ f.total # 0 /\ f.total >= SignificantTotal
SignificantRain(f) == f.total # NoTotal /\ f.total # 0 /\ f.total > SignificantTotal

\* forecasts.slice(0, 4).some(...)
SignificantRainComing(fs) ==
  \E i \in 1..Min(Len(fs), Next48Hours) : SignificantRain(fs[i])

generateFieldworkRecommendation(fs, ws) ==
  IF SignificantRainComing(fs) THEN "urgent"
  ELSE IF Len(ws) > 0 /\ ws[1].start = 0 THEN "favorable"
  ELSE "plan_ahead"

EnhanceInit ==
  /\ forecast \in SeqsUpTo(RainPeriods, MaxPeriods)
  /\ DryIdle
  /\ RecIdle

\* enhanceWeatherWithPrecipitation: the dry windows, then the recommendation
\* computed from them
EnhanceWeatherWithPrecipitation ==
  /\ dpc = "idle"
  /\ dryWindows' = findDryWindows(forecast)
  /\ recommendation' = generateFieldworkRecommendation(forecast, dryWindows')
  /\ dpc' = "done"
  /\ UNCHANGED forecast

(***************************************************************************)
(* processNASAResponse (services/nasa.js)                                  *)
(***************************************************************************)
MissingValue == -999   \* value !== -999: NASA's missing data indicator
FirstDay == 20240101   \* the startDate of the request, as day key YYYYMMDD
PrecipValues == {MissingValue, 0, 1, 2}  \* upstream values, mm

\* the day keys startDate..endDate of a request of n days
RequestedKeys(n) == {FirstDay + d - 1 : d \in 1..n}

\* what the upstream answers: the PRECTOTCORR object, day key -> value, on
\* whatever day keys the upstream chose to send, or a body without it
Responses ==
  {[present |-> FALSE, entries |-> <<>>]} \cup
  {[present |-> TRUE, entries |-> f] :
     f \in UNION {[K -> PrecipValues] : K \in SUBSET RequestedKeys(MaxDays)}}

\* a JavaScript number that may be null, or NaN
Null == [null |-> TRUE, value |-> 0]
Num(v) == [null |-> FALSE, value |-> v]
NaN == [nan |-> TRUE, value |-> 0]
Finite(v) == [nan |-> FALSE, value |-> v]

\* formatNASADate: the substrings 0-4, 4-6 and 6-8 of the key, joined by '-'
formatNASADate(k) == <<k \div 10000, (k \div 100) % 100, k % 100>>

\* Object.entries(precipData): integer-like keys come in ascending numeric
\* order, whatever the order of the response body
RECURSIVE Entries(_, _)
Entries(f, ks) ==
  IF ks = {} THEN <<>>
  ELSE LET k == CHOOSE x \in ks : \A y \in ks : x <= y
       IN <<[key |-> k, value |-> f[k]]>> \o Entries(f, ks \ {k})

\* the record pushed to dailyData for one entry
DailyRecordNull(e) ==
  [date |-> formatNASADate(e.key), precipitation |-> Null]

DailyRecord(e) ==
  IF e.value # MissingValue
  THEN [date |-> formatNASADate(e.key), precipitation |-> Num(e.value)]
  ELSE DailyRecordNull(e)

\* totalPrecipitation += value, for the entries that are not the sentinel
RECURSIVE TotalOf(_)
TotalOf(es) ==
  IF es = <<>> THEN 0
  ELSE (IF Head(es).value # MissingValue THEN Head(es).value ELSE 0)
       + TotalOf(Tail(es))

\* daysWithData++, for the same entries
DaysWithData(es) == Cardinality({i \in 1..Len(es) : es[i].value # MissingValue})

\* (num / den).toFixed(digits) of a quotient that is not negative, as the
\* count of units of its last decimal place; 0/0 gives "NaN"
Pow10(d) == IF d = 0 THEN 1 ELSE IF d = 1 THEN 10 ELSE 100
ToFixed(num, den, digits) ==
  IF den = 0 THEN NaN
  ELSE Finite((2 * num * Pow10(digits) + den) \div (2 * den))

ProcessError == [ok |-> FALSE]

\* the denominator of dataCompleteness: dailyData.length
CompletenessOf(es, n) == ToFixed(DaysWithData(es) * 100, Len(es), 1)

processNASAResponse(data, n) ==
  IF ~data.present THEN ProcessError
  ELSE LET es == Entries(data.entries, DOMAIN data.entries)
       IN [ok |-> TRUE,
           days |-> Len(es),
           daysWithData |-> DaysWithData(es),
           totalPrecipitation |-> ToFixed(TotalOf(es), 1, 2),
           averageDaily |-> IF DaysWithData(es) > 0
                            THEN ToFixed(TotalOf(es), DaysWithData(es), 2)
                            ELSE Finite(0),
           dataCompleteness |-> CompletenessOf(es, n),
           daily |-> [i \in 1..Len(es) |-> DailyRecord(es[i])]]

ProcInit ==
  /\ requestedDays \in 1..MaxDays
  /\ precipData \in Responses
  /\ processed = <<>>
  /\ ppc = "idle"

\* processNASAResponse(response.data, lat, lon, startDate, endDate)
ProcessNASAResponse ==
  /\ ppc = "idle"
  /\ processed' = processNASAResponse(precipData, requestedDays)
  /\ ppc' = "done"
  /\ UNCHANGED <<requestedDays, precipData>>

(***************************************************************************)
(* isValidDate (services/nasa.js)                                          *)
(***************************************************************************)
\* strings are sequences of characters
DigitChars == <<"0", "1", "2", "3", "4", "5", "6", "7", "8", "9">>
Digit(n) == DigitChars[n + 1]
IsDigit(c) == \E n \in 0..9 : DigitChars[n + 1] = c
DigitVal(c) == CHOOSE n \in 0..9 : DigitChars[n + 1] = c

\* the decimal numeral of n on w digits
RECURSIVE Numeral(_, _)
Numeral(n, w) == IF w = 0 THEN <<>> ELSE Append(Numeral(n \div 10, w - 1), Digit(n % 10))

\* YYYYMMDD written out, whether or not it is a date of the calendar
DateString(y, m, d) == Numeral(y, 4) \o Numeral(m, 2) \o Numeral(d, 2)

Years == {50, 1900, 2000, 2023, 2024}
Months == {0, 1, 2, 4, 12, 13}
Days == {0, 1, 28, 29, 30, 31, 32}

\* strings that are not eight digits
NotEightDigits ==
  {<<>>,
   Numeral(2024529, 7),                               \* '2024529'
   Numeral(202400529, 9),                             \* '202400529'
   <<"a", "b", "c", "d", "e", "f", "g", "h">>,        \* 'abcdefgh'
   Numeral(2024, 4) \o <<"-">> \o Numeral(5, 2) \o <<"-">> \o Numeral(29, 2),
   Numeral(202405, 6) \o <<"2", "a">>,                \* '2024052a'
   <<"-">> \o Numeral(2024052, 7)}                    \* '-2024052'

DateStrings ==
  {DateString(y, m, d) : y \in Years, m \in Months, d \in Days} \cup NotEightDigits

\* /^\d{8}$/.test(dateStr)
EightDigits(s) == Len(s) = 8 /\ \A i \in 1..8 : IsDigit(s[i])

\* parseInt(dateStr.substring(from, to), 10) of a string of digits
RECURSIVE ParseDigits(_)
ParseDigits(s) ==
  IF s = <<>> THEN 0
  ELSE 10 * ParseDigits(SubSeq(s, 1, Len(s) - 1)) + DigitVal(s[Len(s)])

ParseInt(s, from, to) == ParseDigits(SubSeq(s, from + 1, to))

IsLeapYear(y) == (y % 4 = 0 /\ y % 100 # 0) \/ y % 400 = 0

\* days of the month with index m (0 = January) of year y
DaysInMonth(y, m) ==
  IF m = 1 THEN (IF IsLeapYear(y) THEN 29 ELSE 28)
  ELSE IF m \in {3, 5, 8, 10} THEN 30 ELSE 31

\* a day count outside the month rolls over into the months around it
RECURSIVE RollDay(_, _, _)
RollDay(y, m, d) ==
  IF d < 1
  THEN LET pm == IF m = 0 THEN 11 ELSE m - 1
           py == IF m = 0 THEN y - 1 ELSE y
       IN RollDay(py, pm, d + DaysInMonth(py, pm))
  ELSE IF d > DaysInMonth(y, m)
       THEN LET nm == IF m = 11 THEN 0 ELSE m + 1
                ny == IF m = 11 THEN y + 1 ELSE y
            IN RollDay(ny, nm, d - DaysInMonth(y, m))
       ELSE [fullYear |-> y, month |-> m, date |-> d]

\* new Date(year, monthIndex, day): a year from 0 to 99 means 1900 + year;
\* a month index outside 0..11 and a day outside the month roll over
NewDate(year, monthIndex, day) ==
  LET y == IF 0 <= year /\ year <= 99 THEN 1900 + year ELSE year
  IN RollDay(y + (monthIndex \div 12), monthIndex % 12, day)

isValidDate(s) ==
  IF ~EightDigits(s) THEN FALSE
  ELSE LET year == ParseInt(s, 0, 4)
           month == ParseInt(s, 4, 6)
           day == ParseInt(s, 6, 8)
           date == NewDate(year, month - 1, day)
       IN /\ date.fullYear = year
          /\ date.month = month - 1
          /\ date.date = day

ValidDateInit ==
  /\ dateStr \in DateStrings
  /\ valid = FALSE
  /\ vpc = "idle"

\* nasaService.isValidDate(dateStr)
IsValidDate ==
  /\ vpc = "idle"
  /\ valid' = isValidDate(dateStr)
  /\ vpc' = "done"
  /\ UNCHANGED dateStr

(***************************************************************************)
(* The satellite series operation: the getNASAPowerData endpoint           *)
(* (index.js) and fetchNASAPowerData (services/nasa.js), on an empty cache *)
(***************************************************************************)
\* query strings given as startDate and endDate; the empty string is a
\* missing parameter
EntryDates ==
  {<<>>,
   DateString(2024, 1, 1),
   DateString(2024, 1, 31),
   DateString(2023, 2, 29),
   DateString(2024, 13, 1),
   Numeral(2024, 4) \o <<"-">> \o Numeral(1, 2) \o <<"-">> \o Numeral(1, 2)}

\* how the upstream answers the request
UpstreamAnswers == {"ok", "422", "404", "timeout"}

\* startDate > endDate, on two strings of eight digits
After(a, b) == ParseDigits(a) > ParseDigits(b)

\* `nasa_${lat}_${lon}_${startDate}_${endDate}`
EntryKey == <<startDate, endDate>>

\* the status of the endpoint's catch block: 400 if the message includes
\* 'Invalid' or 'No NASA POWER data', else 500
EntryErrorStatus(o) == IF o \in {"422", "404"} THEN 400 ELSE 500

\* what the caller gets: the endpoint answers with a status, a direct call
\* returns or throws
Reply(status) == IF entry = "endpoint" THEN status ELSE 0

EntryInit ==
  /\ entry \in {"endpoint", "service"}
  /\ startDate \in EntryDates
  /\ endDate \in EntryDates
  /\ coordsOk \in BOOLEAN
  /\ entry = "service" => coordsOk
  /\ epc = "start"
  /\ httpCalls = <<>>
  /\ cacheWrites = {}
  /\ reply = 0

\* exports.getNASAPowerData up to its call of the service: the checks of
\* the query parameters
GetNASAPowerData ==
  /\ entry = "endpoint"
  /\ epc = "start"
  /\ IF \/ startDate = <<>> \/ endDate = <<>>
        \/ ~coordsOk
        \/ ~isValidDate(startDate) \/ ~isValidDate(endDate)
        \/ After(startDate, endDate)
     THEN epc' = "rejected" /\ reply' = 400
     ELSE epc' = "lookup" /\ reply' = reply
  /\ UNCHANGED <<entry, startDate, endDate, coordsOk, httpCalls, cacheWrites>>

\* nasaService.fetchNASAPowerData called by another module
CallFetchNASAPowerData ==
  /\ entry = "service"
  /\ epc = "start"
  /\ epc' = "lookup"
  /\ UNCHANGED <<entry, startDate, endDate, coordsOk, httpCalls, cacheWrites, reply>>

\* await getCachedData(cacheKey) finds nothing; axios.get(url) is issued
EntryRequest ==
  /\ epc = "lookup"
  /\ httpCalls' = Append(httpCalls, [start |-> startDate, end |-> endDate])
  /\ epc' = "fetch"
  /\ UNCHANGED <<entry, startDate, endDate, coordsOk, cacheWrites, reply>>

\* await axios.get settles: the response is processed and cacheData is
\* called, or the error is mapped and thrown
EntryResponse ==
  /\ epc = "fetch"
  /\ \E o \in UpstreamAnswers :
       IF o = "ok"
       THEN epc' = "set" /\ reply' = reply
       ELSE epc' = "failed" /\ reply' = Reply(EntryErrorStatus(o))
  /\ UNCHANGED <<entry, startDate, endDate, coordsOk, httpCalls, cacheWrites>>

\* await cacheData(cacheKey, processedData, 86400) settles; the series is
\* returned
EntrySet ==
  /\ epc = "set"
  /\ cacheWrites' = cacheWrites \cup {EntryKey}
  /\ epc' = "done"
  /\ reply' = Reply(200)
  /\ UNCHANGED <<entry, startDate, endDate, coordsOk, httpCalls>>

(***************************************************************************)
(* The catch blocks of the two upstream fetchers (services/weather.js,     *)
(* services/nasa.js) and of the endpoints around them (index.js)           *)
(***************************************************************************)
\* messages are sequences of words
NoStatus == "none"   \* error.response is undefined

\* error.message of the errors axios raises
TimeoutMessage == <<"timeout", "of", "N", "ms", "exceeded">>
NetworkMessage(code) == <<"connect", code>>
StatusMessage(s) == <<"Request", "failed", "with", "status", "code", s>>

HttpStatuses == {"400", "404", "422", "429", "500", "503"}

\* what the try block can throw: axios timeouts, connection errors and
\* non-2xx answers, and an error of the parsing that follows the answer
Failures ==
  {[kind |-> "timeout", code |-> "ECONNABORTED", status |-> NoStatus,
    message |-> TimeoutMessage]} \cup
  {[kind |-> "network", code |-> c, status |-> NoStatus,
    message |-> NetworkMessage(c)] : c \in {"ECONNRESET", "ENOTFOUND"}} \cup
  {[kind |-> "http", code |-> "ERR_BAD_RESPONSE", status |-> s,
    message |-> StatusMessage(s)] : s \in HttpStatuses} \cup
  {[kind |-> "parse", code |-> "", status |-> NoStatus,
    message |-> <<"unparsable", "body">>]}

\* the failing calls: a fetcher, its argument, and whether it is reached
\* through its endpoint or called by another module
Fetchers ==
  {[name |-> "station", via |-> v, arg |-> st] :
     v \in {"endpoint", "direct"}, st \in StationIds} \cup
  {[name |-> "satellite", via |-> v, arg |-> "49.9,-97.1"] :
     v \in {"endpoint", "direct"}}

\* an Error as the pair of the text the program wrote and the upstream
\* message it appended
Err(text, detail) == [text |-> text, detail |-> detail]
Message(e) == e.text \o e.detail

\* message.includes(phrase)
Includes(m, phrase) ==
  \E i \in 1..Len(m) :
    /\ i + Len(phrase) - 1 <= Len(m)
    /\ SubSeq(m, i, i + Len(phrase) - 1) = phrase

\* the catch block of fetchECCCWeather
StationError(e, st) ==
  IF e.code = "ECONNABORTED"
  THEN Err(<<"Weather", "service", "timeout", "-", "ECCC", "may", "be",
             "slow", "to", "respond">>, <<>>)
  ELSE IF e.status # NoStatus /\ e.status = "404"
       THEN Err(<<"Invalid", "location", "or", "station", "code:", st>>, <<>>)
       ELSE Err(<<"Failed", "to", "fetch", "or", "parse", "weather", "data:">>,
                e.message)

\* the catch block of fetchNASAPowerData
SatelliteError(e) ==
  IF e.status # NoStatus /\ e.status = "422"
  THEN Err(<<"Invalid", "coordinates", "or", "date", "range", "for", "NASA",
             "POWER">>, <<>>)
  ELSE IF e.status # NoStatus /\ e.status = "404"
       THEN Err(<<"No", "NASA", "POWER", "data", "available", "for", "this",
                  "location/time">>, <<>>)
       ELSE Err(<<"Failed", "to", "fetch", "NASA", "POWER", "data:">>, e.message)

ErrorOf(f, e) ==
  IF f.name = "station" THEN StationError(e, f.arg) ELSE SatelliteError(e)

\* the catch block of exports.getWeather
GetWeatherReply(t) ==
  IF Includes(Message(t), <<"Invalid", "location">>)
  THEN [status |-> 404, error |-> Message(t), details |-> <<>>]
  ELSE IF Includes(Message(t), <<"timeout">>)
       THEN [status |-> 504, error |-> Message(t), details |-> <<>>]
       ELSE [status |-> 500,
             error |-> <<"Failed", "to", "fetch", "ECCC", "weather:">> \o Message(t),
             details |-> <<>>]

\* the catch block of exports.getNASAPowerData
GetNASAPowerDataReply(t) ==
  IF \/ Includes(Message(t), <<"Invalid">>)
     \/ Includes(Message(t), <<"No", "NASA", "POWER", "data">>)
  THEN [status |-> 400, error |-> Message(t), details |-> <<>>]
  ELSE [status |-> 500,
        error |-> <<"Failed", "to", "fetch", "NASA", "POWER", "data">>,
        details |-> Message(t)]

ErrInit ==
  /\ fetcher \in Fetchers
  /\ failure \in Failures
  /\ thrown = <<>>
  /\ httpReply = <<>>
  /\ fpc = "failed"

\* fetchECCCWeather: the try block has thrown, the catch block throws
FetchECCCWeatherCatch ==
  /\ fpc = "failed"
  /\ fetcher.name = "station"
  /\ thrown' = StationError(failure, fetcher.arg)
  /\ fpc' = "thrown"
  /\ UNCHANGED <<fetcher, failure, httpReply>>

\* fetchNASAPowerData: the try block has thrown, the catch block throws
FetchNASAPowerDataCatch ==
  /\ fpc = "failed"
  /\ fetcher.name = "satellite"
  /\ thrown' = SatelliteError(failure)
  /\ fpc' = "thrown"
  /\ UNCHANGED <<fetcher, failure, httpReply>>

\* exports.getWeather answers the error of fetchECCCWeather
GetWeatherCatch ==
  /\ fpc = "thrown"
  /\ fetcher.name = "station" /\ fetcher.via = "endpoint"
  /\ httpReply' = GetWeatherReply(thrown)
  /\ fpc' = "replied"
  /\ UNCHANGED <<fetcher, failure, thrown>>

\* exports.getNASAPowerData answers the error of fetchNASAPowerData
GetNASAPowerDataCatch ==
  /\ fpc = "thrown"
  /\ fetcher.name = "satellite" /\ fetcher.via = "endpoint"
  /\ httpReply' = GetNASAPowerDataReply(thrown)
  /\ fpc' = "replied"
  /\ UNCHANGED <<fetcher, failure, thrown>>

(***************************************************************************)
(* fetchECCCWeather (services/weather.js): from the parsed bulletin to the *)
(* snapshot                                                                *)
(***************************************************************************)
TextChars == {"-", "5", ".", "a"}
Texts == UNION {[1..n -> TextChars] : n \in 0..MaxText}

\* siteData.currentConditions.temperature as xml2js delivers it
\* (explicitArray: false, mergeAttrs: true): no element; an element with
\* attributes and text, { _: text, units: 'C' }; an element with attributes
\* and no text, { units: 'C' }; an element without attributes, the string
TemperatureFields ==
  {[shape |-> "absent", text |-> <<>>], [shape |-> "attrsOnly", text |-> <<>>]} \cup
  {[shape |-> sh, text |-> t] : sh \in {"object", "string"}, t \in Texts}

\* result.siteData: which sections the bulletin has; rest stands for the
\* other elements the snapshot reads without a guard (location.name,
\* location.province, relativeHumidity, wind, pressure, visibility, dateTime)
Bulletins ==
  [siteData : BOOLEAN, location : BOOLEAN, currentConditions : BOOLEAN,
   rest : BOOLEAN, temperature : TemperatureFields]

\* the longest run of '5' at the head of a text
RECURSIVE DigitRun(_)
DigitRun(s) ==
  IF s # <<>> /\ Head(s) = "5" THEN 1 + DigitRun(Tail(s)) ELSE 0

\* the number written by n digits '5'
RECURSIVE Fives(_)
Fives(n) == IF n = 0 THEN 0 ELSE 10 * Fives(n - 1) + 5

Drop(s, n) == SubSeq(s, n + 1, Len(s))

RECURSIVE TenTo(_)
TenTo(k) == IF k = 0 THEN 1 ELSE 10 * TenTo(k - 1)

\* parseFloat(text): an optional sign, digits, an optional point and
\* digits; what follows the longest such prefix is ignored; without any
\* digit the result is NaN.  The value is in units of 10^-MaxText.
ParseFloat(s) ==
  LET neg == s # <<>> /\ Head(s) = "-"
      u == IF neg THEN Tail(s) ELSE s
      ni == DigitRun(u)
      v == Drop(u, ni)
      nf == IF v # <<>> /\ Head(v) = "." THEN DigitRun(Tail(v)) ELSE 0
      mag == TenTo(MaxText) * Fives(ni) + TenTo(MaxText - nf) * Fives(nf)
  IN IF ni + nf = 0 THEN NaN
     ELSE Finite(IF neg THEN 0 - mag ELSE mag)

\* siteData.currentConditions.temperature._ : the text of an element with
\* attributes; undefined for an element without text and for a string
HasText(f) == f.shape = "object"

\* parseFloat(undefined) is NaN
TemperatureOf(f) == IF HasText(f) THEN ParseFloat(f.text) ELSE NaN

FetchError == [ok |-> FALSE, temperature |-> NaN]

\* the try block after the parse: the guard on the sections, then the
\* construction of weatherData; reading a property of undefined throws, and
\* the catch block turns every throw into an error
ParseBulletin(b) ==
  IF ~b.siteData \/ ~b.location \/ ~b.currentConditions THEN FetchError
  ELSE IF ~b.rest \/ b.temperature.shape = "absent" THEN FetchError
  ELSE [ok |-> TRUE, temperature |-> TemperatureOf(b.temperature)]

BulletinInit ==
  /\ bulletin \in Bulletins
  /\ snapshot = <<>>
  /\ bpc = "idle"

\* fetchECCCWeather after await parser.parseStringPromise(response.data)
FetchECCCWeatherParse ==
  /\ bpc = "idle"
  /\ snapshot' = ParseBulletin(bulletin)
  /\ bpc' = "done"
  /\ UNCHANGED bulletin

(***************************************************************************)
(* calculateFrostRisk (the calculations service)                           *)
(***************************************************************************)
\* comparisons of a JavaScript number that may be NaN with a constant: every
\* comparison with NaN is false
Le(a, k) == ~a.nan /\ a.value <= k
Lt(a, k) == ~a.nan /\ a.value < k
Ge(a, k) == ~a.nan /\ a.value >= k
Gt(a, k) == ~a.nan /\ a.value > k

\* a - k
Minus(a, k) == IF a.nan THEN NaN ELSE Finite(a.value - k)

\* temperatures are in tenths of a degree, wind speeds in km/h
FrostTemps == {NaN} \cup {Finite(v) : v \in {-10, 0, 1, 20, 21, 30, 31, 40, 41, 50, 51, 80, 81}}
FrostWinds == {NaN} \cup {Finite(v) : v \in {7, 8, 9}}

\* forecast[0].temperature.low: no forecast period, null, or a number
NoForecast == [present |-> FALSE, null |-> TRUE, num |-> NaN]
LowNull == [present |-> TRUE, null |-> TRUE, num |-> NaN]
Low(a) == [present |-> TRUE, null |-> FALSE, num |-> a]
FrostLows == {NoForecast, LowNull} \cup {Low(a) : a \in FrostTemps}

\* current.condition: a text, or nothing (the empty text)
ConditionTexts ==
  {<<>>,
   <<"C", "l", "e", "a", "r">>,
   <<"M", "a", "i", "n", "l", "y", " ", "C", "l", "e", "a", "r">>,
   <<"A", " ", "f", "e", "w", " ", "c", "l", "o", "u", "d", "s">>,
   <<"C", "l", "o", "u", "d", "y">>}

\* current.dewpoint, which fetchECCCWeather never sets: absent, or a value
Dewpoints == {Null, Num(10)}

\* condition.toLowerCase()
LowerChar(c) ==
  IF c = "A" THEN "a" ELSE IF c = "C" THEN "c" ELSE IF c = "M" THEN "m" ELSE c
ToLowerCase(s) == [i \in 1..Len(s) |-> LowerChar(s[i])]

FrostWeathers ==
  [temperature : FrostTemps, windSpeed : FrostWinds, condition : ConditionTexts,
   low : FrostLows, dewpoint : Dewpoints]

\* forecastedLow !== null ? forecastedLow : currentTemp - 3
EffectiveTempForRisk(w) ==
  IF w.low.present /\ ~w.low.null THEN w.low.num ELSE Minus(w.temperature, 30)

\* windSpeed < 8
LightWindLe(wind) == Le(wind, 8)
LightWind(wind) == Lt(wind, 8)

\* condition.includes('clear') || condition.includes('a few clouds')
ClearSky(condition) ==
  \/ Includes(ToLowerCase(condition), <<"c", "l", "e", "a", "r">>)
  \/ Includes(ToLowerCase(condition), <<"a", " ", "f", "e", "w", " ", "c", "l", "o", "u", "d", "s">>)

\* the level after the if / else if chain on the effective temperature
LevelByTemperature(eff) ==
  IF Le(eff, 0) THEN "HIGH" ELSE IF Le(eff, 20) THEN "MEDIUM" ELSE "LOW"

FactorsByTemperature(eff) ==
  IF Le(eff, 0) THEN <<"freezing">>
  ELSE IF Le(eff, 20) THEN <<"light frost">>
  ELSE IF Le(eff, 40) THEN <<"monitor">>
  ELSE <<>>

calculateFrostRisk(w) ==
  LET eff == EffectiveTempForRisk(w)
      level1 == LevelByTemperature(eff)
      radiative == LightWind(w.windSpeed) /\ ClearSky(w.condition)
      level2 == IF radiative /\ level1 = "LOW" /\ Le(eff, 50)
                THEN "MEDIUM" ELSE level1
      f1 == FactorsByTemperature(eff)
      f2 == IF radiative THEN Append(f1, "radiative cooling") ELSE f1
      f3 == IF ~w.dewpoint.null /\ w.dewpoint.value # 0
               /\ Le(eff, w.dewpoint.value) /\ Le(eff, 20)
            THEN Append(f2, "dew point") ELSE f2
      f4 == IF f3 = <<>> /\ level2 = "LOW" THEN <<"low">> ELSE f3
  IN [tonight_risk_level |-> level2, factors |-> f4]

CalcReady ==
  /\ risk = <<>>
  /\ conditions = <<>>
  /\ gdd = 0
  /\ cpc = "idle"

FrostInit ==
  /\ weather \in FrostWeathers
  /\ gddArgs = <<>>
  /\ CalcReady

\* calculations.calculateFrostRisk(weatherData)
CalculateFrostRisk ==
  /\ cpc = "idle"
  /\ risk' = calculateFrostRisk(weather)
  /\ cpc' = "done"
  /\ UNCHANGED <<weather, conditions, gddArgs, gdd>>

(***************************************************************************)
(* calculateSprayConditions (the calculations service)                     *)
(***************************************************************************)
\* temperatures and wind speeds in tenths, humidity in percent; a reading
\* the bulletin gives as text that is not a number ('calm') is NaN
SprayTemps == {NaN} \cup {Finite(v) : v \in {49, 50, 280, 281}}
SprayWinds == {NaN} \cup {Finite(v) : v \in {29, 30, 150, 151}}
SprayHumidities == {NaN} \cup {Finite(v) : v \in {39, 40, 80, 81}}

\* the snapshot without a forecast: overall.bestWindow stays null
SprayWeathers ==
  [temperature : SprayTemps, windSpeed : SprayWinds, humidity : SprayHumidities]

\* { value, suitable: v >= lo && v <= hi,
\*   reason: v < lo ? below : v > hi ? above : 'Good' }
SprayCheck(v, lo, hi, below, above) ==
  [value |-> v,
   suitable |-> Ge(v, lo) /\ Le(v, hi),
   reason |-> IF Lt(v, lo) THEN below ELSE IF Gt(v, hi) THEN above ELSE "Good"]

calculateSprayConditions(w) ==
  LET t == SprayCheck(w.temperature, 50, 280,
                      "Too cold - reduced herbicide efficacy",
                      "Too hot - increased drift and volatility")
      wd == SprayCheck(w.windSpeed, 30, 150,
                       "Too calm - potential for inversion layer",
                       "Too windy - high drift risk")
      h == SprayCheck(w.humidity, 40, 80,
                      "Too dry - rapid droplet evaporation",
                      "Too humid - slow drying, reduced absorption")
  IN [temperature |-> t, wind |-> wd, humidity |-> h,
      overall |-> [canSpray |-> t.suitable /\ wd.suitable /\ h.suitable]]

SprayInit ==
  /\ weather \in SprayWeathers
  /\ gddArgs = <<>>
  /\ CalcReady

\* calculations.calculateSprayConditions(weatherData)
CalculateSprayConditions ==
  /\ cpc = "idle"
  /\ conditions' = calculateSprayConditions(weather)
  /\ cpc' = "done"
  /\ UNCHANGED <<weather, risk, gddArgs, gdd>>

(***************************************************************************)
(* calculateGDD (the calculations service)                                 *)
(***************************************************************************)
\* Math.max and Math.min: NaN if an argument is NaN
MathMax(a, b) ==
  IF a.nan \/ b.nan THEN NaN ELSE IF a.value >= b.value THEN a ELSE b
MathMin(a, b) ==
  IF a.nan \/ b.nan THEN NaN ELSE IF a.value <= b.value THEN a ELSE b

\* temperatures in tenths of a degree; parseFloat of a missing reading
\* hands NaN to the calculator
GddTemps == {NaN} \cup {Finite(v) : v \in {-50, 50, 100, 150, 250, 300, 350}}
GddBases == {Finite(50), Finite(100)}       \* baseTemp: 5 (canola), 10 (corn)
GddCaps == {Finite(80), Finite(300), Finite(350)}  \* maxThreshold

GddArguments ==
  [tempMax : GddTemps, tempMin : GddTemps, baseTemp : GddBases, maxThreshold : GddCaps]

\* Math.min(Math.max(t, baseTemp), maxThreshold)
AdjustedNoCap(t, baseTemp, maxThreshold) == MathMax(t, baseTemp)
Adjusted(t, baseTemp, maxThreshold) == MathMin(MathMax(t, baseTemp), maxThreshold)

\* the result in twentieths of a degree: (adjMax + adjMin) / 2 - baseTemp is
\* ((adjMax + adjMin) - 2 * baseTemp) / 2 of the values in tenths
calculateGDD(a) ==
  LET adjMax == Adjusted(a.tempMax, a.baseTemp, a.maxThreshold)
      adjMin == Adjusted(a.tempMin, a.baseTemp, a.maxThreshold)
      avgTemp2 == IF adjMax.nan \/ adjMin.nan THEN NaN
                  ELSE Finite(adjMax.value + adjMin.value)
  IN MathMax(Finite(0), Minus(avgTemp2, 2 * a.baseTemp.value))

GddInit ==
  /\ gddArgs \in GddArguments
  /\ weather = <<>>
  /\ CalcReady

\* calculations.calculateGDD(tempMax, tempMin, baseTemp, maxThreshold)
CalculateGDD ==
  /\ cpc = "idle"
  /\ gdd' = calculateGDD(gddArgs)
  /\ cpc' = "done"
  /\ UNCHANGED <<weather, risk, conditions, gddArgs>>

(***************************************************************************)
(* extractPrecipitationData, extractPoP and extractPrecipitationAmounts    *)
(* (services/weather.js), on one forecast element of the bulletin          *)
(***************************************************************************)
\* new xml2js.Parser({ explicitArray: false, mergeAttrs: true })
ExplicitArray == FALSE

\* texts of forecast.abbreviatedForecast.textSummary
AbbreviatedTexts ==
  {<<>>,
   <<"S", "u", "n", "n", "y">>,
   <<"P", "O", "P", " ", "7", "0", "%">>,
   <<"P", "O", "P", " ", "4", "0", "%">>,
   <<"S", "h", "o", "w", "e", "r", "s">>}

\* texts of forecast.textSummary
SummaryTexts ==
  {<<>>,
   <<"S", "u", "n", "n", "y">>,
   <<"5">>,
   <<"4", "0", " ", "p", "e", "r", "c", "e", "n", "t", " ", "c", "h", "a", "n", "c", "e", " ", "o", "f", " ", "s", "h", "o", "w", "e", "r", "s">>,
   <<"c", "h", "a", "n", "c", "e", " ", "o", "f", " ", "s", "h", "o", "w", "e", "r", "s">>,
   <<"p", "e", "r", "i", "o", "d", "s", " ", "o", "f", " ", "r", "a", "i", "n">>,
   <<"r", "a", "i", "n">>,
   <<"r", "a", "i", "n", " ", "5", " ", "t", "o", " ", "1", "0", " ", "m", "m">>,
   <<"r", "a", "i", "n", " ", "5", " ", "m", "m">>,
   <<"s", "n", "o", "w", " ", "2", " ", "t", "o", " ", "4", " ", "c", "m">>,
   <<"r", "a", "i", "n", " ", "5", " ", "m", "m", " ", "s", "n", "o", "w", " ", "2", " ", "c", "m">>}

\* what xml2js makes of an element that holds only text: the string, or
\* with explicitArray an array of one string
XmlLeaf(explicitArray, t) ==
  [kind |-> IF explicitArray THEN "array" ELSE "string", text |-> t]

Undefined == [kind |-> "undefined", text |-> <<>>]

\* what xml2js makes of an element with child elements: an object, or with
\* explicitArray an array of one object; hasIt: the bulletin has the element
XmlNode(explicitArray, hasIt, child) ==
  [kind |-> IF ~hasIt THEN "undefined" ELSE IF explicitArray THEN "array" ELSE "object",
   textSummary |-> IF hasIt THEN child ELSE Undefined]

\* a <forecast> element with its abbreviatedForecast and textSummary children
XmlForecast(explicitArray, hasAbbreviated, abbreviated, summary) ==
  [abbreviatedForecast |->
     XmlNode(explicitArray, hasAbbreviated, XmlLeaf(explicitArray, abbreviated)),
   textSummary |-> XmlLeaf(explicitArray, summary)]

ForecastElements ==
  {XmlForecast(ExplicitArray, h, a, t) :
     h \in BOOLEAN, a \in AbbreviatedTexts, t \in SummaryTexts}

\* x?.[0] : element 0 of an array; character 0 of a non-empty string;
\* undefined otherwise
Index0(x) ==
  IF x.kind = "array" THEN [kind |-> "string", text |-> x.text]
  ELSE IF x.kind = "string" /\ x.text # <<>>
       THEN [kind |-> "string", text |-> <<x.text[1]>>]
  ELSE Undefined

\* v || ''
OrEmpty(v) == IF v.kind = "string" THEN v.text ELSE <<>>

\* forecastPeriod.abbreviatedForecast?.[0]?.textSummary?.[0] || '' : an
\* object has no property 0
AbbreviatedText(p) ==
  IF p.abbreviatedForecast.kind = "array"
  THEN OrEmpty(Index0(p.abbreviatedForecast.textSummary))
  ELSE <<>>

\* forecastPeriod.textSummary?.[0] || ''
TextSummary(p) == OrEmpty(Index0(p.textSummary))

Spaces == {" "}
Digits == {DigitChars[n] : n \in 1..10}

\* the length of the longest run of characters of the class from position i
RunLen(s, i, class) ==
  IF i > Len(s) THEN 0
  ELSE CHOOSE n \in 0..(Len(s) - i + 1) :
         /\ \A j \in i..(i + n - 1) : s[j] \in class
         /\ i + n > Len(s) \/ s[i + n] \notin class

\* the literal at position i
LitAt(s, i, lit) ==
  /\ i + Len(lit) - 1 <= Len(s)
  /\ SubSeq(s, i, i + Len(lit) - 1) = lit

NoMatch == [matched |-> FALSE, g1 |-> <<>>, g2 |-> <<>>]

\* the match a search finds: the one at the leftmost position
Leftmost(at(_), s) ==
  LET is == {i \in 1..Len(s) : at(i).matched}
  IN IF is = {} THEN NoMatch ELSE at(CHOOSE i \in is : \A j \in is : i <= j)

\* /POP\s+(\d+)%/ at position i
PopAt(s, i) ==
  LET a == i + 3
      b == a + RunLen(s, a, Spaces)
      e == b + RunLen(s, b, Digits)
  IN IF LitAt(s, i, <<"P", "O", "P">>) /\ b > a /\ e > b /\ LitAt(s, e, <<"%">>)
     THEN [matched |-> TRUE, g1 |-> SubSeq(s, b, e - 1), g2 |-> <<>>]
     ELSE NoMatch

\* abbreviatedText.match(/POP\s+(\d+)%/)
PopMatch(s) == LET at(i) == PopAt(s, i) IN Leftmost(at, s)

\* /(\d+)\s*percent chance/i at position i
PercentAt(s, i) ==
  LET b == i + RunLen(s, i, Digits)
      c == b + RunLen(s, b, Spaces)
  IN IF b > i /\ LitAt(ToLowerCase(s), c, <<"p", "e", "r", "c", "e", "n", "t", " ", "c", "h", "a", "n", "c", "e">>)
     THEN [matched |-> TRUE, g1 |-> SubSeq(s, i, b - 1), g2 |-> <<>>]
     ELSE NoMatch

\* textSummary.match(/(\d+)\s*percent chance/i)
PercentMatch(s) == LET at(i) == PercentAt(s, i) IN Leftmost(at, s)

\* /(\d+)\s*(?:to\s*(\d+))?\s*unit/i at position i: the range is tried
\* first; 'to' can only stand where the spaces after the first number end
AmountAt(s, i, unit) ==
  LET low == ToLowerCase(s)
      b == i + RunLen(s, i, Digits)
      c == b + RunLen(s, b, Spaces)
      d == (c + 2) + RunLen(s, c + 2, Spaces)
      e == d + RunLen(s, d, Digits)
      f == e + RunLen(s, e, Spaces)
  IN IF b = i THEN NoMatch
     ELSE IF LitAt(low, c, <<"t", "o">>) /\ e > d /\ LitAt(low, f, unit)
          THEN [matched |-> TRUE, g1 |-> SubSeq(s, i, b - 1), g2 |-> SubSeq(s, d, e - 1)]
     ELSE IF LitAt(low, c, unit)
          THEN [matched |-> TRUE, g1 |-> SubSeq(s, i, b - 1), g2 |-> <<>>]
     ELSE NoMatch

\* textSummary.match(/(\d+)\s*(?:to\s*(\d+))?\s*mm/i), and the same with cm
AmountMatch(s, unit) == LET at(i) == AmountAt(s, i, unit) IN Leftmost(at, s)

\* Math.round((a + b) / 2) of two numbers that are not negative
RoundedMidpoint(a, b) == (a + b + 1) \div 2

\* { min, max, expected } of a match; an empty second group is undefined
AmountOf(m) ==
  LET lo == ParseDigits(m.g1)
      hi == IF m.g2 # <<>> THEN ParseDigits(m.g2) ELSE lo
  IN [matched |-> TRUE, min |-> lo, max |-> hi,
      expected |-> IF m.g2 # <<>> THEN RoundedMidpoint(lo, hi) ELSE lo]

NoAmount == [matched |-> FALSE, min |-> 0, max |-> 0, expected |-> 0]

extractPoP(p) ==
  LET abbreviatedText == AbbreviatedText(p)
      popMatch == PopMatch(abbreviatedText)
      textSummary == TextSummary(p)
      percentMatch == PercentMatch(textSummary)
      wet == \/ Includes(textSummary, <<"s", "h", "o", "w", "e", "r", "s">>)
             \/ Includes(textSummary, <<"r", "a", "i", "n">>)
  IN IF popMatch.matched
     THEN [value |-> ParseDigits(popMatch.g1), text |-> "chance"]
     ELSE IF percentMatch.matched
     THEN [value |-> ParseDigits(percentMatch.g1), text |-> "chance"]
     ELSE IF wet /\ Includes(textSummary, <<"c", "h", "a", "n", "c", "e", " ", "o", "f">>)
     THEN [value |-> 30, text |-> "estimated"]
     ELSE IF wet /\ Includes(textSummary, <<"p", "e", "r", "i", "o", "d", "s", " ", "o", "f">>)
     THEN [value |-> 70, text |-> "estimated"]
     ELSE [value |-> 0, text |-> "none"]

\* total: NoTotal stands for null; (amounts.total || 0) + snow.expected * 10
extractPrecipitationAmounts(p) ==
  LET textSummary == TextSummary(p)
      rainMatch == AmountMatch(textSummary, <<"m", "m">>)
      snowMatch == AmountMatch(textSummary, <<"c", "m">>)
      rain == IF rainMatch.matched THEN AmountOf(rainMatch) ELSE NoAmount
      snow == IF snowMatch.matched THEN AmountOf(snowMatch) ELSE NoAmount
      afterRain == IF rain.matched THEN rain.expected ELSE NoTotal
  IN [rain |-> rain, snow |-> snow,
      total |-> IF snow.matched
                THEN (IF afterRain = NoTotal THEN 0 ELSE afterRain) + snow.expected * 10
                ELSE afterRain,
      unit |-> IF snow.matched THEN "mm water equivalent" ELSE "mm"]

PrecipInit ==
  /\ period \in ForecastElements
  /\ pop = <<>>
  /\ amounts = <<>>
  /\ xpc = "idle"

\* the body of forecasts.forEach in extractPrecipitationData
ExtractPrecipitationData ==
  /\ xpc = "idle"
  /\ pop' = extractPoP(period)
  /\ amounts' = extractPrecipitationAmounts(period)
  /\ xpc' = "done"
  /\ UNCHANGED period

(***************************************************************************)
(* fetchECCCWeather (services/weather.js): the snapshot of a bulletin      *)
(* parsed at a given time                                                  *)
(***************************************************************************)
\* the bulletins parsed more than once
Documents == {b \in Bulletins : Len(b.temperature.text) <= 1}

NoTimestamp == -1   \* an error carries no timestamp

\* new Date().toISOString() at time t, evaluated by the call
TimestampAtLoad(t) == 0
Timestamp(t) == t

\* weatherData: the fields read from the bulletin, timestamp and source;
\* a throw carries none of them
WeatherData(b, t) ==
  LET s == ParseBulletin(b)
  IN IF s.ok
     THEN [ok |-> TRUE, temperature |-> s.temperature,
           timestamp |-> Timestamp(t), source |-> "ECCC"]
     ELSE [ok |-> FALSE, temperature |-> s.temperature,
           timestamp |-> NoTimestamp, source |-> ""]

ReparseInit ==
  /\ bulletin \in Documents
  /\ snapshot = <<>>
  /\ bpc = "idle"
  /\ parses = <<>>

\* one more call of fetchECCCWeather that receives the same document
Reparse ==
  /\ Len(parses) < MaxParses
  /\ parses' = Append(parses, [at |-> now, result |-> WeatherData(bulletin, now)])
  /\ UNCHANGED <<bulletin, snapshot, bpc>>

(***************************************************************************)
(* registerFarmer (services/auth/authService.js)                           *)
(***************************************************************************)
Uids == {"u1", "u2"}          \* authUser.uid
Usernames == {"ann", "bob"}   \* profileDataFromClient.username, lower-cased
NoUid == ""                   \* no usernames document
NoName == ""                  \* no username given; no farmers document

NoRegistration == [pc |-> "idle", username |-> NoName, requested |-> FALSE]

AuthInit ==
  /\ usernames = [n \in Usernames |-> NoUid]
  /\ farmers = [u \in Uids |-> NoName]
  /\ reg = [u \in Uids |-> NoRegistration]
  /\ nregs = 0

\* registerFarmer(authUser, profileDataFromClient) up to its first await;
\* n = NoName: the client gave no username
RegisterFarmer(u, n) ==
  /\ reg[u].pc \in {"idle", "done", "taken", "failed"}
  /\ nregs < MaxRegistrations
  /\ nregs' = nregs + 1
  /\ reg' = [reg EXCEPT ![u] = [pc |-> "check", username |-> n, requested |-> n # NoName]]
  /\ UNCHANGED <<usernames, farmers>>

\* usernameDoc = await db.collection('usernames').doc(username).get();
\* if (usernameDoc.exists) throw 'Username already taken. ...'
CheckUsername(u) ==
  /\ reg[u].pc = "check" /\ reg[u].requested
  /\ reg' = [reg EXCEPT ![u].pc =
               IF usernames[reg[u].username] # NoUid THEN "taken" ELSE "commit"]
  /\ UNCHANGED <<usernames, farmers, nregs>>

\* username = await generateUniqueUsername(base): a name for which the
\* lookup found no document
GenerateUsername(u, n) ==
  /\ reg[u].pc = "check" /\ ~reg[u].requested
  /\ usernames[n] = NoUid
  /\ reg' = [reg EXCEPT ![u].pc = "commit", ![u].username = n]
  /\ UNCHANGED <<usernames, farmers, nregs>>

\* batch.set(farmers/{uid}), batch.set(usernames/{username}), await
\* batch.commit(): both documents are written, whatever they held, or none
Commit(u, ok) ==
  /\ reg[u].pc = "commit"
  /\ IF ok
     THEN /\ farmers' = [farmers EXCEPT ![u] = reg[u].username]
          /\ usernames' = [usernames EXCEPT ![reg[u].username] = u]
          /\ reg' = [reg EXCEPT ![u].pc = "done"]
     ELSE /\ reg' = [reg EXCEPT ![u].pc = "failed"]
          /\ UNCHANGED <<usernames, farmers>>
  /\ UNCHANGED nregs

(***************************************************************************)
(* generateUniqueUsername (utils/validation.js)                            *)
(***************************************************************************)
MaxAttempts == 1000   \* if (suffix > 1000): the safety break
BaseLimit == 15       \* .substring(0, 15)

\* baseName: undefined, or a string
BaseNames ==
  {[string |-> FALSE, text |-> <<>>],
   [string |-> TRUE, text |-> <<>>],
   [string |-> TRUE, text |-> <<"!", "!">>],
   [string |-> TRUE, text |-> <<"M", "a", "c", "!", "5">>],
   [string |-> TRUE, text |-> [i \in 1..(BaseLimit + 1) |-> "a"]]}

\* /[^a-z0-9]/ on the letters of the base names
IsAlnum(c) == c \in Digits \cup {"a", "c", "m"}

\* baseName.toLowerCase().replace(/[^a-z0-9]/g, '').substring(0, 15), after
\* the default 'farmer' of a missing base
CleanBase(b) ==
  LET name == IF ~b.string \/ b.text = <<>>
              THEN <<"f", "a", "r", "m", "e", "r">> ELSE b.text
      kept == SelectSeq(ToLowerCase(name), IsAlnum)
  IN SubSeq(kept, 1, Min(Len(kept), BaseLimit))

\* cleanBase || 'user'
Stem(clean) == IF clean = <<>> THEN <<"u", "s", "e", "r">> ELSE clean

\* a candidate: the stem alone, the stem with the suffix, or the stem with
\* the last 6 or the last 4 digits of Date.now()
Candidate(stem, kind, n) == [stem |-> stem, kind |-> kind, n |-> n]

LookupOutcomes == {"absent", "exists", "error"}   \* of usernames/{name}.get()

GenInit ==
  gen \in {[pc |-> "idle", baseName |-> b, suffix |-> 0, username |-> <<>>,
            checks |-> 0, fallbackChecks |-> 0, verified |-> FALSE] : b \in BaseNames}

\* the function up to its loop
GenerateUniqueUsername ==
  /\ gen.pc = "idle"
  /\ gen' = [gen EXCEPT !.pc = "loop", !.suffix = 1,
                        !.username = Candidate(Stem(CleanBase(gen.baseName)), "plain", 0)]

\* the catch block: a name that no lookup has seen
Caught(g) ==
  [g EXCEPT !.pc = "returned", !.verified = FALSE,
            !.username = Candidate(g.username.stem, "last4", 0)]

\* one turn of the loop: the lookup of the candidate
CandidateLookup(found) ==
  /\ gen.pc = "loop"
  /\ LET g == [gen EXCEPT !.checks = gen.checks + 1]
         candidate == IF gen.suffix = 1
                      THEN Candidate(gen.username.stem, "plain", 0)
                      ELSE Candidate(gen.username.stem, "suffix", gen.suffix)
     IN gen' =
          IF found = "absent"
          THEN [g EXCEPT !.pc = "returned", !.username = candidate, !.verified = TRUE]
          ELSE IF found = "exists"
          THEN IF gen.suffix + 1 > MaxAttempts
               THEN [g EXCEPT !.pc = "fallback", !.suffix = gen.suffix + 1,
                              !.username = Candidate(gen.username.stem, "last6", 0)]
               ELSE [g EXCEPT !.suffix = gen.suffix + 1]
          ELSE Caught(g)

\* the lookup of the name built after the safety break; its throw is inside
\* the try block and lands in the catch block
FallbackLookup(found) ==
  /\ gen.pc = "fallback"
  /\ LET g == [gen EXCEPT !.fallbackChecks = gen.fallbackChecks + 1]
     IN gen' = IF found = "absent"
               THEN [g EXCEPT !.pc = "returned", !.verified = TRUE]
               ELSE Caught(g)

(***************************************************************************)
(* updateCropData (services/crops/cropService.js), for one farmer          *)
(***************************************************************************)
FirstYear == 2023                      \* the year of the server clock at the start
SeasonYears == FirstYear..(FirstYear + 2)    \* the year argument; the server clock
HistoryYears == (FirstYear - 1)..(FirstYear + 2)  \* ids of cropHistory documents
NoCrops == 0                           \* the empty list []
CropLists == {NoCrops, 1, 2}           \* lists of crops, by name
Acres == {100, 200}                    \* totalAcres
NoYear == 0                            \* no lastUpdated, no currentSeasonYear: null

NoFarm ==
  [exists |-> FALSE, crops |-> NoCrops, totalAcres |-> 0, lastUpdated |-> NoYear,
   currentSeasonYear |-> NoYear]

\* the profile registerFarmer writes: farmDetails without lastUpdated
Registered(crops, acres) ==
  [exists |-> TRUE, crops |-> crops, totalAcres |-> acres, lastUpdated |-> NoYear,
   currentSeasonYear |-> NoYear]

NoArchive == [exists |-> FALSE, crops |-> NoCrops, totalAcres |-> 0, season |-> NoYear]

\* lastUpdateYear: the year of the lastUpdated timestamp; without one,
\* year - 1 when there are crops; else null
LastUpdateYear(f, year) ==
  IF f.lastUpdated # NoYear THEN f.lastUpdated
  ELSE IF f.crops # NoCrops THEN year - 1
  ELSE NoYear

\* lastUpdateYear && lastUpdateYear < currentUpdateYear && existingCrops.length > 0
ArchivesLate(f, year) ==
  /\ LastUpdateYear(f, year) # NoYear
  /\ LastUpdateYear(f, year) < year - 1
  /\ f.crops # NoCrops
Archives(f, year) ==
  /\ LastUpdateYear(f, year) # NoYear
  /\ LastUpdateYear(f, year) < year
  /\ f.crops # NoCrops

\* the document set at cropHistory/{lastUpdateYear}; season: the
\* currentSeasonYear the archived crops were stored with
ArchiveOf(f) ==
  [exists |-> TRUE, crops |-> f.crops, totalAcres |-> f.totalAcres,
   season |-> f.currentSeasonYear]

CropInit ==
  /\ farm \in {NoFarm} \cup {Registered(c, a) : c \in CropLists, a \in Acres}
  /\ cropHistory = [y \in HistoryYears |-> NoArchive]
  /\ wallYear = FirstYear
  /\ nupdates = 0
  /\ lastUpdate = [end |-> "none", year |-> NoYear, before |-> NoFarm,
                   historyBefore |-> [y \in HistoryYears |-> NoArchive]]

\* updateCropData(farmerId, crops, totalAcres, year): one transaction; ok:
\* the transaction commits
UpdateCropData(crops, totalAcres, year, ok) ==
  /\ nupdates < MaxUpdates
  /\ nupdates' = nupdates + 1
  /\ LET call == [year |-> year, before |-> farm, historyBefore |-> cropHistory]
     IN IF ~farm.exists
        THEN /\ lastUpdate' = [end |-> "Farmer profile not found."] @@ call
             /\ UNCHANGED <<farm, cropHistory>>
        ELSE IF ~ok
        THEN /\ lastUpdate' = [end |-> "failed"] @@ call
             /\ UNCHANGED <<farm, cropHistory>>
        ELSE /\ cropHistory' =
                  IF Archives(farm, year)
                  THEN [cropHistory EXCEPT ![LastUpdateYear(farm, year)] = ArchiveOf(farm)]
                  ELSE cropHistory
             /\ farm' = [farm EXCEPT !.crops = crops, !.totalAcres = totalAcres,
                                     !.lastUpdated = wallYear,
                                     !.currentSeasonYear = year]
             /\ lastUpdate' = [end |-> "updated"] @@ call
  /\ UNCHANGED wallYear

\* the server clock passes into the next year
NewYear ==
  /\ wallYear + 1 \in SeasonYears
  /\ wallYear' = wallYear + 1
  /\ UNCHANGED <<farm, cropHistory, nupdates, lastUpdate>>

\* `weather_${province}_${station}`: the station pair a cache key of
\* exports.getWeather stands for
StationOf(k) == CASE k = "weather_MB_s1" -> "MB/s0000193"

(***************************************************************************)
(* Specifications                                                          *)
(***************************************************************************)
CacheOnly == UNCHANGED <<lateVars, multiVars, dryVars, recVars, derivedVars>>

\* the steps of the invocations in progress, and of the clock
CacheSteps ==
  \/ \E r \in Reqs : NasaGet(r) /\ CacheOnly
  \/ \E r \in Reqs : NasaDelete(r) /\ CacheOnly
  \/ \E r \in Reqs : NasaResponse(r) /\ CacheOnly
  \/ \E r \in Reqs : NasaSet(r) /\ CacheOnly
  \/ \E r \in Reqs : WeatherGet(r) /\ CacheOnly
  \/ \E r \in Reqs : WeatherDelete(r) /\ CacheOnly
  \/ \E r \in Reqs : WeatherResponse(r) /\ CacheOnly
  \/ \E r \in Reqs : WeatherSet(r) /\ CacheOnly
  \/ \E r \in Reqs : InsightsResponse(r) /\ CacheOnly
  \/ \E d \in Deltas : Tick(d) /\ CacheOnly

\* the cache-aside layer: requests arrive at any time and run concurrently
Init ==
  /\ LateIdle /\ CacheInit /\ stations = <<>> /\ MultiIdle /\ forecast = <<>> /\ DryIdle
  /\ RecIdle /\ DerivedIdle

Next ==
  \/ \E r \in Reqs, k \in NasaKeys : FetchNASAPowerData(r, k) /\ CacheOnly
  \/ \E r \in Reqs, k \in WeatherKeys : GetWeather(r, k) /\ CacheOnly
  \/ \E r \in Reqs, k \in WeatherKeys : GetWeatherWithInsights(r, k) /\ CacheOnly
  \/ CacheSteps

Spec == Init /\ [][Next]_vars

\* the cache-aside layer, calls one after the other: a call starts when no
\* other is running
SeqNext ==
  \/ \E r \in Reqs, k \in NasaKeys : Quiet /\ FetchNASAPowerData(r, k) /\ CacheOnly
  \/ \E r \in Reqs, k \in WeatherKeys : Quiet /\ GetWeather(r, k) /\ CacheOnly
  \/ \E r \in Reqs, k \in WeatherKeys : Quiet /\ GetWeatherWithInsights(r, k) /\ CacheOnly
  \/ CacheSteps

SeqSpec == Init /\ [][SeqNext]_vars

\* one multi-station operation on a list of stations; fetchECCCWeather does
\* not touch the cache
MultiOnly == UNCHANGED <<lateVars, cacheVars, dryVars, recVars, derivedVars>>

MultiSpecInit ==
  /\ LateIdle /\ CacheInit /\ MultiInit /\ forecast = <<>> /\ DryIdle
  /\ RecIdle /\ DerivedIdle

MultiNext ==
  \/ WarmStationsWithRateLimit /\ MultiOnly
  \/ WarmBatch /\ MultiOnly
  \/ \E j \in 1..Len(stations) : FetchSettles(j) /\ MultiOnly
  \/ WarmBatchSettled /\ MultiOnly
  \/ WarmPause /\ MultiOnly
  \/ WarmReturn /\ MultiOnly
  \/ GetMultipleStations /\ MultiOnly
  \/ MultiSettled /\ MultiOnly

MultiSpec == MultiSpecInit /\ [][MultiNext]_vars

\* every fetch settles (axios timeout), every timer fires
FairMultiSpec == MultiSpecInit /\ [][MultiNext]_vars /\ WF_vars(MultiNext)

\* findDryWindows applied to a forecast
DrySpecInit ==
  /\ LateIdle /\ CacheInit /\ stations = <<>> /\ MultiIdle /\ DryInit
  /\ RecIdle /\ DerivedIdle

DryNext == FindDryWindows /\ UNCHANGED <<lateVars, cacheVars, multiVars, recVars, derivedVars>>

DrySpec == DrySpecInit /\ [][DryNext]_vars

\* enhanceWeatherWithPrecipitation applied to a forecast
EnhanceSpecInit ==
  /\ LateIdle /\ CacheInit /\ stations = <<>> /\ MultiIdle /\ EnhanceInit /\ DerivedIdle

EnhanceNext ==
  EnhanceWeatherWithPrecipitation /\ UNCHANGED <<lateVars, cacheVars, multiVars, derivedVars>>

EnhanceSpec == EnhanceSpecInit /\ [][EnhanceNext]_vars

\* processNASAResponse applied to an upstream response
ProcSpecInit ==
  /\ LateIdle /\ CacheInit /\ stations = <<>> /\ MultiIdle /\ forecast = <<>> /\ DryIdle
  /\ RecIdle /\ ProcInit
  /\ DateIdle /\ EntryIdle /\ ErrIdle /\ BulletinIdle /\ CalcIdle

ProcNext ==
  ProcessNASAResponse /\
  UNCHANGED <<lateVars, cacheVars, multiVars, dryVars, recVars, dateVars, entryVars,
              errVars, bulletinVars, calcVars>>

ProcSpec == ProcSpecInit /\ [][ProcNext]_vars

\* isValidDate applied to a string
ValidDateSpecInit ==
  /\ LateIdle /\ CacheInit /\ stations = <<>> /\ MultiIdle /\ forecast = <<>> /\ DryIdle
  /\ RecIdle /\ ProcIdle /\ ValidDateInit
  /\ EntryIdle /\ ErrIdle /\ BulletinIdle /\ CalcIdle

ValidDateNext ==
  IsValidDate /\
  UNCHANGED <<lateVars, cacheVars, multiVars, dryVars, recVars, procVars, entryVars,
              errVars, bulletinVars, calcVars>>

ValidDateSpec == ValidDateSpecInit /\ [][ValidDateNext]_vars

\* one satellite series request, through the endpoint or by a direct call
EntryOnly ==
  UNCHANGED <<lateVars, cacheVars, multiVars, dryVars, recVars, procVars, dateVars,
              errVars, bulletinVars, calcVars>>

EntrySpecInit ==
  /\ LateIdle /\ CacheInit /\ stations = <<>> /\ MultiIdle /\ forecast = <<>> /\ DryIdle
  /\ RecIdle /\ ProcIdle /\ DateIdle /\ EntryInit
  /\ ErrIdle /\ BulletinIdle /\ CalcIdle

EntryNext ==
  \/ GetNASAPowerData /\ EntryOnly
  \/ CallFetchNASAPowerData /\ EntryOnly
  \/ EntryRequest /\ EntryOnly
  \/ EntryResponse /\ EntryOnly
  \/ EntrySet /\ EntryOnly

EntrySpec == EntrySpecInit /\ [][EntryNext]_vars

\* one failing upstream request of either fetcher
ErrOnly ==
  UNCHANGED <<lateVars, cacheVars, multiVars, dryVars, recVars, procVars, dateVars,
              entryVars, bulletinVars, calcVars>>

ErrSpecInit ==
  /\ LateIdle /\ CacheInit /\ stations = <<>> /\ MultiIdle /\ forecast = <<>> /\ DryIdle
  /\ RecIdle /\ ProcIdle /\ DateIdle /\ EntryIdle /\ ErrInit
  /\ BulletinIdle /\ CalcIdle

ErrNext ==
  \/ FetchECCCWeatherCatch /\ ErrOnly
  \/ FetchNASAPowerDataCatch /\ ErrOnly
  \/ GetWeatherCatch /\ ErrOnly
  \/ GetNASAPowerDataCatch /\ ErrOnly

ErrSpec == ErrSpecInit /\ [][ErrNext]_vars

\* fetchECCCWeather applied to a bulletin
BulletinSpecInit ==
  /\ LateIdle /\ CacheInit /\ stations = <<>> /\ MultiIdle /\ forecast = <<>> /\ DryIdle
  /\ RecIdle /\ ProcIdle /\ DateIdle /\ EntryIdle /\ ErrIdle /\ BulletinInit
  /\ CalcIdle

BulletinNext ==
  FetchECCCWeatherParse /\
  UNCHANGED <<lateVars, cacheVars, multiVars, dryVars, recVars, procVars, dateVars,
              entryVars, errVars, calcVars>>

BulletinSpec == BulletinSpecInit /\ [][BulletinNext]_vars

\* a calculator applied to a snapshot
CalcOnly ==
  UNCHANGED <<lateVars, cacheVars, multiVars, dryVars, recVars, procVars, dateVars,
              entryVars, errVars, bulletinVars>>

CalcOthersIdle ==
  /\ LateIdle /\ CacheInit /\ stations = <<>> /\ MultiIdle /\ forecast = <<>> /\ DryIdle
  /\ RecIdle /\ ProcIdle /\ DateIdle /\ EntryIdle /\ ErrIdle /\ BulletinIdle

FrostSpecInit == CalcOthersIdle /\ FrostInit

FrostNext == CalculateFrostRisk /\ CalcOnly

FrostSpec == FrostSpecInit /\ [][FrostNext]_vars

SpraySpecInit == CalcOthersIdle /\ SprayInit

SprayNext == CalculateSprayConditions /\ CalcOnly

SpraySpec == SpraySpecInit /\ [][SprayNext]_vars

GddSpecInit == CalcOthersIdle /\ GddInit

GddNext == CalculateGDD /\ CalcOnly

GddSpec == GddSpecInit /\ [][GddNext]_vars

\* the state outside the parts added for the precipitation analyser
earlyVars == <<cacheVars, multiVars, dryVars, recVars, derivedVars>>

EarlyIdle ==
  /\ CacheInit /\ stations = <<>> /\ MultiIdle /\ forecast = <<>> /\ DryIdle
  /\ RecIdle /\ DerivedIdle

\* the precipitation analyser applied to one forecast element
PrecipSpecInit == EarlyIdle /\ PrecipInit /\ parses = <<>> /\ AuthIdle /\ gen = <<>> /\ CropIdle

PrecipNext ==
  ExtractPrecipitationData /\ UNCHANGED <<earlyVars, parses, authVars, gen, cropVars>>

PrecipSpec == PrecipSpecInit /\ [][PrecipNext]_vars

\* one bulletin parsed several times while the clock advances
ReparseSpecInit ==
  /\ CacheInit /\ stations = <<>> /\ MultiIdle /\ forecast = <<>> /\ DryIdle
  /\ RecIdle /\ ProcIdle /\ DateIdle /\ EntryIdle /\ ErrIdle /\ CalcIdle
  /\ PrecipIdle /\ ReparseInit /\ AuthIdle /\ gen = <<>> /\ CropIdle

ReparseNext ==
  \/ Reparse /\ UNCHANGED <<earlyVars, precipVars, authVars, gen, cropVars>>
  \/ \E d \in Deltas : Tick(d) /\ UNCHANGED <<lateVars, multiVars, dryVars, recVars, derivedVars>>

ReparseSpec == ReparseSpecInit /\ [][ReparseNext]_vars

\* registrations of farmers, arriving at any time and running concurrently
AuthOnly == UNCHANGED <<earlyVars, precipVars, parses, gen, cropVars>>

AuthSpecInit ==
  EarlyIdle /\ PrecipIdle /\ parses = <<>> /\ AuthInit /\ gen = <<>> /\ CropIdle

AuthNext ==
  \/ \E u \in Uids, n \in Usernames \cup {NoName} : RegisterFarmer(u, n) /\ AuthOnly
  \/ \E u \in Uids : CheckUsername(u) /\ AuthOnly
  \/ \E u \in Uids, n \in Usernames : GenerateUsername(u, n) /\ AuthOnly
  \/ \E u \in Uids, ok \in BOOLEAN : Commit(u, ok) /\ AuthOnly

AuthSpec == AuthSpecInit /\ [][AuthNext]_vars

\* one call of generateUniqueUsername, every lookup ending in any way
GenSpecInit ==
  EarlyIdle /\ PrecipIdle /\ parses = <<>> /\ AuthIdle /\ GenInit /\ CropIdle

GenOnly == UNCHANGED <<earlyVars, precipVars, parses, authVars, cropVars>>

GenNext ==
  \/ GenerateUniqueUsername /\ GenOnly
  \/ \E o \in LookupOutcomes : CandidateLookup(o) /\ GenOnly
  \/ \E o \in LookupOutcomes : FallbackLookup(o) /\ GenOnly

GenSpec == GenSpecInit /\ [][GenNext]_vars

\* updates of one farmer's crops over the years
CropOnly == UNCHANGED <<earlyVars, precipVars, parses, authVars, gen>>

CropSpecInit ==
  EarlyIdle /\ PrecipIdle /\ parses = <<>> /\ AuthIdle /\ gen = <<>> /\ CropInit

CropNext ==
  \/ \E c \in CropLists, a \in Acres, y \in SeasonYears, ok \in BOOLEAN :
       UpdateCropData(c, a, y, ok) /\ CropOnly
  \/ NewYear /\ CropOnly

CropSpec == CropSpecInit /\ [][CropNext]_vars

\* one run of warmStationsWithRateLimit on a list of well-formed stations,
\* and getWeather requests, one after the other, once it has returned; the
\* clock counts the seconds since the return
WarmSpecInit ==
  /\ LateIdle /\ CacheInit
  /\ stations \in SeqsUpTo(StationIds, MaxStations)
  /\ MultiIdle /\ forecast = <<>> /\ DryIdle /\ RecIdle /\ DerivedIdle

Warmed == mop = "warm" /\ wpc = "done"

WarmNext ==
  \/ WarmStationsWithRateLimit /\ MultiOnly
  \/ WarmBatch /\ MultiOnly
  \/ \E j \in 1..Len(stations) : FetchSettles(j) /\ MultiOnly
  \/ WarmBatchSettled /\ MultiOnly
  \/ WarmPause /\ MultiOnly
  \/ WarmReturn /\ MultiOnly
  \/ \E r \in Reqs, k \in WeatherKeys : Warmed /\ Quiet /\ GetWeather(r, k) /\ CacheOnly
  \/ \E r \in Reqs : WeatherGet(r) /\ CacheOnly
  \/ \E r \in Reqs : WeatherDelete(r) /\ CacheOnly
  \/ \E r \in Reqs : WeatherResponse(r) /\ CacheOnly
  \/ \E r \in Reqs : WeatherSet(r) /\ CacheOnly
  \/ \E d \in Deltas : Warmed /\ Tick(d) /\ CacheOnly

WarmSpec == WarmSpecInit /\ [][WarmNext]_vars

(***************************************************************************)
(* Properties of the cache-aside layer                                     *)
(***************************************************************************)
\* TTL policy of the source a key belongs to
KeyTtl(k) == IF k \in NasaKeys THEN NasaTtl ELSE WeatherTtl

\* steps in which the read, the lazy delete or the set of slot r resolves
LookupStep(r) == req[r].pc = "get" /\ req'[r].pc # "get"
DeleteStep(r) == req[r].pc = "del" /\ req'[r].pc # "del"
SetStep(r) == req[r].pc = "set" /\ req'[r].pc # "set"

\* C1: a lookup never returns the value of an entry older than its TTL: the
\* lookup that reads such an entry goes on to delete it and returns absent;
\* a lookup that reads an entry within its TTL returns the stored value and
\* leaves the cache as it is (the store operations of the lookup succeeding).
C1_LookupHonoursTtl ==
  [][\A r \in Reqs :
       LET k == req[r].key
           d == cache[k] IN
       /\ (LookupStep(r) /\ d.exists /\ now - d.timestamp > KeyTtl(k))
            => /\ req'[r].lookup # "hit"
               /\ req'[r].result = 0
               /\ storeOk' => req'[r].pc = "del"
       /\ DeleteStep(r)
            => /\ req'[r].lookup = "absent"
               /\ storeOk' => ~cache'[k].exists
       /\ (LookupStep(r) /\ storeOk' /\ d.exists /\ now - d.timestamp <= KeyTtl(k))
            => /\ req'[r].lookup = "hit"
               /\ req'[r].result = d.value
               /\ cache' = cache]_vars

\* a lookup found an expired satellite entry, deleted it and returned absent
C1_Witness ==
  \E r \in Reqs :
    /\ req[r].op = "nasa" /\ req[r].pc = "fetch" /\ req[r].lookup = "absent"
    /\ storeOk
    /\ lastPut[req[r].key].exists
    /\ now - lastPut[req[r].key].at > NasaTtl
    /\ ~cache[req[r].key].exists

\* C2: every call of getWeatherWithInsights looks its key up in the cache
\* first, issues the upstream fetch only after a miss, and has written the
\* fetched snapshot to the cache when it returns.
C2_InsightsIsCacheAside ==
  \A r \in Reqs :
    req[r].op = "insights" =>
      /\ req[r].lookup # "none"
      /\ req[r].fetchId > 0 => req[r].lookup = "absent"
      /\ (req[r].pc = "done" /\ req[r].result > 0 /\ req[r].fetchId > 0)
           => cache[req[r].key].exists

\* C3: round trip, calls one after the other: after cacheData(k, v, ttl)
\* landed, a lookup of k less than ttl seconds later returns v (its read
\* succeeding); a lookup more than ttl seconds later returns absent; an
\* entry appears at k only by a cacheData.
C3_RoundTrip ==
  [][\A r \in Reqs :
       LET k == req[r].key
           p == lastPut[k] IN
       /\ (LookupStep(r) /\ storeOk' /\ p.exists /\ now - p.at < p.ttl)
            => req'[r].lookup = "hit" /\ req'[r].result = p.value
       /\ (LookupStep(r) /\ p.exists /\ now - p.at > p.ttl)
            => req'[r].lookup \in {"pending", "absent"} /\ req'[r].result = 0
       /\ DeleteStep(r) => req'[r].lookup = "absent"
       /\ (LookupStep(r) /\ storeOk' /\ ~cache[k].exists)
            => req'[r].lookup = "absent"
       /\ (~SetStep(r) /\ req[r].op # "none" /\ ~cache[k].exists)
            => (cache'[k].exists => \E r2 \in Reqs : SetStep(r2))]_vars

\* a station entry was stored, expired and was looked up and removed by a call
\* whose fetch failed; the next lookup returns absent again
C3_Witness ==
  \E r \in Reqs :
    /\ req[r].op = "weather" /\ req[r].pc = "fetch" /\ req[r].lookup = "absent"
    /\ lastPut[req[r].key].exists
    /\ now - lastPut[req[r].key].at > WeatherTtl
    /\ ~cache[req[r].key].exists
    /\ lastFinished.op = "weather" /\ lastFinished.issued = 1
    /\ ~lastFinished.stored.exists
    /\ ncalls = 3

\* C4: when two satellite requests for one key have both missed, fetched and
\* written, the entry left is the complete document one of them wrote, and
\* each returned the whole value it fetched.
C4_LastWriterWins ==
  \A r1, r2 \in Reqs :
    (/\ r1 # r2
     /\ req[r1].op = "nasa" /\ req[r2].op = "nasa"
     /\ req[r1].key = req[r2].key
     /\ req[r1].pc = "done" /\ req[r2].pc = "done"
     /\ req[r1].lookup = "absent" /\ req[r2].lookup = "absent"
     /\ req[r1].wrote /\ req[r2].wrote)
    => /\ cache[req[r1].key] \in {Written(req[r1]), Written(req[r2])}
       /\ req[r1].result = req[r1].fetchId
       /\ req[r2].result = req[r2].fetchId

\* both requests missed and wrote at different times; request 1, which
\* fetched first, wrote last and its document is the one left
C4_Witness ==
  /\ req[1].op = "nasa" /\ req[2].op = "nasa"
  /\ req[1].pc = "done" /\ req[2].pc = "done"
  /\ req[1].lookup = "absent" /\ req[2].lookup = "absent"
  /\ req[1].wrote /\ req[2].wrote
  /\ req[1].ts # req[2].ts
  /\ cache[req[2].key] = Written(req[1])
  /\ req[2].fetchId > req[1].fetchId

\* C5: a failed cache read or lazy delete makes the lookup return absent and
\* the request issue its upstream fetch; a failed cache write is swallowed
\* and the request returns what it fetched; no request ends in an error
\* without an upstream request of its own.
C5_FailOpen ==
  [][\A r \in Reqs :
       /\ ((LookupStep(r) \/ DeleteStep(r)) /\ ~storeOk')
            => /\ req'[r].lookup = "absent"
               /\ req'[r].pc = "fetch"
               /\ req'[r].result = 0
               /\ nfetch' = nfetch + 1 /\ req'[r].fetchId = nfetch'
       /\ (SetStep(r) /\ ~storeOk')
            => /\ req'[r].pc = "done"
               /\ req'[r].result = req[r].fetchId
               /\ cache' = cache
       /\ req'[r].result = Error => req'[r].fetchId > 0]_vars

\* a satellite request whose cache write failed returned the fetched value
C5_Witness ==
  \E r \in Reqs :
    /\ ~storeOk
    /\ req[r].op = "nasa" /\ req[r].pc = "done"
    /\ req[r].lookup = "absent" /\ ~req[r].wrote
    /\ req[r].fetchId > 0 /\ req[r].result = req[r].fetchId

\* C6: every entry in the cache carries the TTL of its source next to its
\* value and store time: 300 for station bulletins, 86400 for satellite
\* series.
C6_EntryCarriesTtl ==
  \A k \in Keys : cache[k].exists => cache[k].ttl = KeyTtl(k)

\* C7: of two successive fetchNASAPowerData calls for one key, the first
\* having stored its result and the second looking up less than 86400 s
\* after that (its read succeeding), the second issues no upstream request
\* and returns the stored value: one upstream request in total.
C7_SecondCallServedFromCache ==
  [][\A r \in Reqs :
       (/\ LookupStep(r) /\ req[r].op = "nasa" /\ storeOk'
        /\ lastFinished.op = "nasa" /\ lastFinished.key = req[r].key
        /\ lastFinished.stored.exists
        /\ now - lastFinished.stored.timestamp < NasaTtl)
       => /\ req'[r].pc = "done"
          /\ req'[r].lookup = "hit"
          /\ req'[r].result = lastFinished.stored.value
          /\ lastFinished.issued + (nfetch' - nfetch) = 1]_vars

\* the second of two calls, later than the first, was served from the cache
C7_Witness ==
  \E r \in Reqs :
    /\ req[r].op = "nasa" /\ req[r].pc = "done" /\ req[r].lookup = "hit"
    /\ ncalls = 2 /\ nfetch = 1
    /\ req[r].result = 1
    /\ now - cache[req[r].key].timestamp >= WeatherTtl

(***************************************************************************)
(* Properties of the multi-station operations                              *)
(***************************************************************************)
\* the batch of three a position of the list falls into
BatchOf(j) == (j - 1) \div 3

\* C8: in every multi-station operation at most 3 upstream fetches are in
\* flight, and the fetches in flight all belong to one batch (none of a later
\* batch has started while one of an earlier batch is unsettled).
C8_BoundedFanOut ==
  /\ Cardinality(inflight) <= 3
  /\ \A j1, j2 \in inflight : BatchOf(j1) = BatchOf(j2)

\* C9: warmStationsWithRateLimit always returns, and what it returns has one
\* result per input station, in input order, 'fulfilled' exactly for the
\* stations whose fetch succeeded and 'rejected' with the error message for
\* the others; every station was attempted.
C9_WarmCollectsEveryResult ==
  /\ (mop = "warm") ~> (mop = "warm" /\ wpc = "done")
  /\ [](mop = "warm" /\ wpc = "done" =>
          /\ Len(results) = Len(stations)
          /\ \A j \in 1..Len(stations) :
               /\ outcome[j] # "none"
               /\ results[j].station = stations[j]
               /\ results[j].status = "fulfilled" <=> outcome[j] = "ok"
               /\ outcome[j] # "ok" =>
                    /\ results[j].status = "rejected"
                    /\ results[j].error = ErrMessage(outcome[j]))

\* four stations were warmed in two batches; the first failed, the last did not
C9_Witness ==
  /\ mop = "warm" /\ wpc = "done"
  /\ Len(stations) = 4 /\ Len(results) = 4
  /\ outcome[1] = "timeout" /\ outcome[2] = "ok" /\ outcome[4] = "ok"
  /\ results[1].status = "rejected" /\ results[4].status = "fulfilled"

(***************************************************************************)
(* Properties of findDryWindows                                            *)
(***************************************************************************)
\* a period is dry: probability below 30 and total unknown or below 2
DryPeriod(f) == f.pop < 30 /\ (f.total = NoTotal \/ f.total < 2)

\* positions s..e (from 0) are a maximal run of dry periods of the forecast
MaximalDryRun(fs, s, e) ==
  /\ 0 <= s /\ s <= e /\ e < Len(fs)
  /\ \A i \in s..e : DryPeriod(fs[i + 1])
  /\ s = 0 \/ ~DryPeriod(fs[s])
  /\ e = Len(fs) - 1 \/ ~DryPeriod(fs[e + 2])

\* C10: findDryWindows returns exactly the maximal runs of at least 2
\* consecutive dry periods, in ascending order and without overlap, each with
\* its start, end and length = end - start + 1; [dry, dry, wet, dry, dry]
\* gives the windows [0,1] and [3,4].
C10_DryWindowsAreMaximalRuns ==
  dpc = "done" =>
    /\ \A k \in 1..Len(dryWindows) :
         /\ MaximalDryRun(forecast, dryWindows[k].start, dryWindows[k].end)
         /\ dryWindows[k].length = dryWindows[k].end - dryWindows[k].start + 1
         /\ dryWindows[k].length >= 2
    /\ \A s, e \in 0..Len(forecast) :
         (MaximalDryRun(forecast, s, e) /\ e - s + 1 >= 2)
           => \E k \in 1..Len(dryWindows) :
                dryWindows[k].start = s /\ dryWindows[k].end = e
    /\ \A k \in 1..Len(dryWindows) - 1 :
         dryWindows[k].end < dryWindows[k + 1].start
    /\ (/\ Len(forecast) = 5
        /\ \A i \in {1, 2, 4, 5} : DryPeriod(forecast[i])
        /\ ~DryPeriod(forecast[3]))
         => /\ Len(dryWindows) = 2
            /\ dryWindows[1].start = 0 /\ dryWindows[1].end = 1
            /\ dryWindows[2].start = 3 /\ dryWindows[2].end = 4

\* [dry, dry, wet, dry, dry] was scanned and gave two windows of length 2
C10_Witness ==
  /\ dpc = "done"
  /\ Len(forecast) = 5
  /\ \A i \in {1, 2, 4, 5} : DryPeriod(forecast[i])
  /\ ~DryPeriod(forecast[3])
  /\ Len(dryWindows) = 2
  /\ dryWindows[1].length = 2 /\ dryWindows[2].length = 2

(***************************************************************************)
(* Properties of the precipitation summary                                 *)
(***************************************************************************)
\* some period among the first four has a known total above 10 mm
RainWithin48h(fs) ==
  \E i \in 1..Len(fs) : i <= 4 /\ fs[i].total # NoTotal /\ fs[i].total > 10

\* a maximal run of at least two dry periods starts at index 0
DryFromStart(fs) == \E e \in 1..(Len(fs) - 1) : MaximalDryRun(fs, 0, e)

\* C11: for every forecast, generateFieldworkRecommendation returns exactly
\* one status, by priority: "urgent" iff some period among the first 4 has a
\* known total > 10; otherwise "favorable" iff a dry window starts at index
\* 0; otherwise "plan_ahead".
C11_RecommendationByPriority ==
  dpc = "done" =>
    /\ recommendation \in {"urgent", "favorable", "plan_ahead"}
    /\ recommendation = "urgent" <=> RainWithin48h(forecast)
    /\ recommendation = "favorable" <=>
         (~RainWithin48h(forecast) /\ DryFromStart(forecast))
    /\ recommendation = "plan_ahead" <=>
         (~RainWithin48h(forecast) /\ ~DryFromStart(forecast))

\* a forecast whose fifth period alone carries more than 10 mm and which
\* opens with a dry window: the rain lies outside the first four periods, the
\* status is "favorable"
C11_Witness ==
  /\ dpc = "done"
  /\ Len(forecast) = 5
  /\ forecast[5].total = 11
  /\ \A i \in 1..4 : forecast[i].total # 11
  /\ DryFromStart(forecast)
  /\ recommendation = "favorable"

(***************************************************************************)
(* Properties of the satellite series                                      *)
(***************************************************************************)
\* the i-th requested day, as day key and as formatted date
RequestedKey(i) == 20240101 + i - 1
RequestedDate(i) == <<2024, 1, i>>

\* C12: for every requested range of N days and every upstream response, the
\* daily list has exactly N records, one per requested day in ascending date
\* order; a day whose upstream value is the sentinel -999 has precipitation
\* null (never 0), every other day keeps its upstream value.
C12_DailyListCoversRequest ==
  ppc = "done" =>
    /\ processed.ok
    /\ Len(processed.daily) = requestedDays
    /\ \A i \in 1..requestedDays :
         /\ processed.daily[i].date = RequestedDate(i)
         /\ RequestedKey(i) \in DOMAIN precipData.entries
         /\ precipData.entries[RequestedKey(i)] = -999 =>
              processed.daily[i].precipitation.null
         /\ precipData.entries[RequestedKey(i)] # -999 =>
              /\ ~processed.daily[i].precipitation.null
              /\ processed.daily[i].precipitation.value =
                   precipData.entries[RequestedKey(i)]

\* the records with a value
DataRecords == {i \in 1..Len(processed.daily) : ~processed.daily[i].precipitation.null}

RECURSIVE SumOfRecords(_)
SumOfRecords(S) ==
  IF S = {} THEN 0
  ELSE LET i == CHOOSE x \in S : TRUE
       IN processed.daily[i].precipitation.value + SumOfRecords(S \ {i})

\* C13: daysWithData is the number of daily records with a value;
\* totalPrecipitation is the sum of exactly those values; averageDaily is
\* totalPrecipitation / daysWithData, or "0.00" without data days;
\* dataCompleteness is daysWithData / (number of requested days) x 100, a
\* value within [0, 100].
C13_SummaryOfSeries ==
  (ppc = "done" /\ processed.ok) =>
    /\ processed.daysWithData = Cardinality(DataRecords)
    /\ processed.totalPrecipitation = [nan |-> FALSE, value |-> 100 * SumOfRecords(DataRecords)]
    /\ processed.daysWithData = 0 =>
         processed.averageDaily = [nan |-> FALSE, value |-> 0]
    /\ processed.daysWithData > 0 =>
         /\ ~processed.averageDaily.nan
         /\ 2 * processed.daysWithData * processed.averageDaily.value
              <= 200 * SumOfRecords(DataRecords) + processed.daysWithData
         /\ 2 * processed.daysWithData * processed.averageDaily.value
              > 200 * SumOfRecords(DataRecords) - processed.daysWithData
    /\ ~processed.dataCompleteness.nan
    /\ processed.dataCompleteness.value >= 0
    /\ processed.dataCompleteness.value <= 1000
    /\ 2 * requestedDays * processed.dataCompleteness.value
         <= 2000 * processed.daysWithData + requestedDays
    /\ 2 * requestedDays * processed.dataCompleteness.value
         > 2000 * processed.daysWithData - requestedDays

\* the number written by the characters from..to of a string of digits
NumberAt(s, from, to) ==
  LET v(i) == CHOOSE n \in 0..9 : <<"0", "1", "2", "3", "4", "5", "6", "7", "8", "9">>[n + 1] = s[i]
  IN IF to - from = 3
     THEN 1000 * v(from) + 100 * v(from + 1) + 10 * v(from + 2) + v(from + 3)
     ELSE 10 * v(from) + v(from + 1)

\* the length of month mm (1..12) of year yyyy in the Gregorian calendar
CalendarDays(yyyy, mm) ==
  IF mm \in {4, 6, 9, 11} THEN 30
  ELSE IF mm # 2 THEN 31
  ELSE IF yyyy % 400 = 0 \/ (yyyy % 4 = 0 /\ yyyy % 100 # 0) THEN 29 ELSE 28

\* s is exactly 8 digits YYYYMMDD naming a day of the calendar
CalendarDate(s) ==
  /\ Len(s) = 8
  /\ \A i \in 1..8 : s[i] \in {"0", "1", "2", "3", "4", "5", "6", "7", "8", "9"}
  /\ NumberAt(s, 5, 6) \in 1..12
  /\ NumberAt(s, 7, 8) \in 1..CalendarDays(NumberAt(s, 1, 4), NumberAt(s, 5, 6))

\* C15: isValidDate(s) is true iff s is exactly 8 digits YYYYMMDD whose
\* month is in 1..12 and whose day is in 1..(days of that month in that year,
\* 29 February only in leap years); it is false for every other string.
C15_ValidDateIffCalendarDate ==
  vpc = "done" => (valid <=> CalendarDate(dateStr))

\* C14: no upstream satellite request is ever issued with a startDate or
\* endDate that is not a valid YYYYMMDD calendar date: every entry point
\* (fetchNASAPowerData and the getNASAPowerData endpoint) rejects such a
\* request before the HTTP call and before any cache write.
C14_NoRequestWithInvalidDate ==
  (entry # "none" /\ ~(CalendarDate(startDate) /\ CalendarDate(endDate))) =>
    /\ httpCalls = <<>>
    /\ cacheWrites = {}
    /\ epc \notin {"fetch", "set", "done", "failed"}

(***************************************************************************)
(* Properties of the error mapping                                         *)
(***************************************************************************)
\* the kinds of failure each fetcher is to tell apart: the station fetch
\* timeout, 404 and other; the satellite fetch timeout, 422, 404 and other
FailureClass(name, e) ==
  IF e.kind = "timeout" THEN "timeout"
  ELSE IF e.kind = "http" /\ e.status = "404" THEN "404"
  ELSE IF e.kind = "http" /\ e.status = "422" /\ name = "satellite" THEN "422"
  ELSE "other"

\* C16: for both fetchers a timeout produces an error outcome that differs
\* from the outcome of every 4xx/5xx response and of a generic failure: the
\* station fetch tells timeout, 404 and other failures apart, the satellite
\* fetch tells timeout, 422, 404 and other failures apart.  The outcome is
\* the error the fetcher chooses: the text it writes itself.
C16_TimeoutIsDistinct ==
  fpc \in {"thrown", "replied"} =>
    \A g \in Failures :
      FailureClass(fetcher.name, g) # FailureClass(fetcher.name, failure) =>
        thrown.text # ErrorOf(fetcher, g).text

(***************************************************************************)
(* Properties of the bulletin parser                                       *)
(***************************************************************************)
\* C17: every snapshot returned by fetchECCCWeather has a numeric
\* current.temperature: when the bulletin lacks the location or the
\* currentConditions section, or its temperature field is absent or cannot
\* be coerced to a number, fetchECCCWeather fails with an error and returns
\* no snapshot.
C17_SnapshotHasNumericTemperature ==
  bpc = "done" =>
    /\ snapshot.ok => ~snapshot.temperature.nan
    /\ (~bulletin.location \/ ~bulletin.currentConditions) => ~snapshot.ok
    /\ bulletin.temperature.shape = "absent" => ~snapshot.ok

(***************************************************************************)
(* Properties of the agronomic calculators                                 *)
(***************************************************************************)
\* the effective temperature of the snapshot, in tenths of a degree:
\* forecast[0]'s low if present, else the current temperature - 3
Effective ==
  IF weather.low.present /\ ~weather.low.null
  THEN weather.low.num
  ELSE [nan |-> weather.temperature.nan,
        value |-> IF weather.temperature.nan THEN 0 ELSE weather.temperature.value - 30]

\* a <= effective temperature <= b does not hold for NaN
EffectiveAtMost(k) == ~Effective.nan /\ Effective.value <= k
EffectiveAbove(k) == ~Effective.nan /\ Effective.value > k

\* wind below 8 km/h and a condition text containing 'clear' or 'a few
\* clouds', whatever the case of its letters
PrimeForFrost ==
  /\ ~weather.windSpeed.nan /\ weather.windSpeed.value < 8
  /\ weather.condition \in
       {<<"C", "l", "e", "a", "r">>,
        <<"M", "a", "i", "n", "l", "y", " ", "C", "l", "e", "a", "r">>,
        <<"A", " ", "f", "e", "w", " ", "c", "l", "o", "u", "d", "s">>}

\* C18: calculateFrostRisk uses effective = forecast[0] low if present, else
\* current temperature - 3; the level is HIGH iff effective <= 0; MEDIUM iff
\* 0 < effective <= 2, or 2 < effective <= 5 with wind < 8 and a condition
\* text containing 'clear' or 'a few clouds'; LOW otherwise; the clear-sky
\* rule only ever raises LOW to MEDIUM and never changes HIGH or MEDIUM.
C18_FrostLevel ==
  (cpc = "done" /\ risk # <<>>) =>
    /\ risk.tonight_risk_level \in {"HIGH", "MEDIUM", "LOW"}
    /\ risk.tonight_risk_level = "HIGH" <=> EffectiveAtMost(0)
    /\ risk.tonight_risk_level = "MEDIUM" <=>
         \/ EffectiveAbove(0) /\ EffectiveAtMost(20)
         \/ EffectiveAbove(20) /\ EffectiveAtMost(50) /\ PrimeForFrost
    /\ EffectiveAtMost(20) =>
         risk.tonight_risk_level = (IF EffectiveAtMost(0) THEN "HIGH" ELSE "MEDIUM")

\* no forecast low, current temperature 8.0 (effective 5.0), wind 7 and
\* 'Mainly Clear': the clear-sky rule raises LOW to MEDIUM at its upper limit
C18_Witness ==
  /\ cpc = "done" /\ risk # <<>>
  /\ weather.low = [present |-> TRUE, null |-> TRUE, num |-> [nan |-> TRUE, value |-> 0]]
  /\ weather.temperature = [nan |-> FALSE, value |-> 80]
  /\ weather.windSpeed = [nan |-> FALSE, value |-> 7]
  /\ weather.condition = <<"M", "a", "i", "n", "l", "y", " ", "C", "l", "e", "a", "r">>
  /\ risk.tonight_risk_level = "MEDIUM"

\* a check of calculateSprayConditions against the range lo..hi of its
\* reading v: suitable iff v is in the range, reason 'Good' iff suitable, a
\* reading under lo and a reading over hi carry two different reasons
CheckFollowsRange(c, v, lo, hi) ==
  /\ c.suitable <=> (~v.nan /\ lo <= v.value /\ v.value <= hi)
  /\ (c.reason = "Good") <=> c.suitable
  /\ (~v.nan /\ v.value < lo) => c.reason \in {"Too cold - reduced herbicide efficacy",
                                              "Too calm - potential for inversion layer",
                                              "Too dry - rapid droplet evaporation"}
  /\ (~v.nan /\ v.value > hi) => c.reason \in {"Too hot - increased drift and volatility",
                                              "Too windy - high drift risk",
                                              "Too humid - slow drying, reduced absorption"}

\* C19: calculateSprayConditions sets overall.canSpray to true iff
\* temperature is in [5, 28], wind speed in [3, 15] and humidity in
\* [40, 80]; each of the three checks has reason 'Good' iff it is suitable,
\* and a failing check carries the below-minimum reason under the lower
\* bound and a different, above-maximum reason over the upper bound.
C19_SprayChecks ==
  (cpc = "done" /\ conditions # <<>>) =>
    /\ conditions.overall.canSpray <=>
         /\ ~weather.temperature.nan
         /\ 50 <= weather.temperature.value /\ weather.temperature.value <= 280
         /\ ~weather.windSpeed.nan
         /\ 30 <= weather.windSpeed.value /\ weather.windSpeed.value <= 150
         /\ ~weather.humidity.nan
         /\ 40 <= weather.humidity.value /\ weather.humidity.value <= 80
    /\ CheckFollowsRange(conditions.temperature, weather.temperature, 50, 280)
    /\ CheckFollowsRange(conditions.wind, weather.windSpeed, 30, 150)
    /\ CheckFollowsRange(conditions.humidity, weather.humidity, 40, 80)

\* the four arguments are numbers
NumericArguments ==
  /\ ~gddArgs.tempMax.nan /\ ~gddArgs.tempMin.nan
  /\ ~gddArgs.baseTemp.nan /\ ~gddArgs.maxThreshold.nan

\* t brought into [lo, hi] (lo <= hi), in tenths
ClampInto(t, lo, hi) == IF t < lo THEN lo ELSE IF t > hi THEN hi ELSE t

\* the statement of C20 with `example` as the value of
\* calculateGDD(25, 15, 10, 30): the result is held in twentieths of a
\* degree, the arguments in tenths
GddStatement(example) ==
  (cpc = "done" /\ gddArgs # <<>> /\ NumericArguments) =>
    LET tmax == gddArgs.tempMax.value
        tmin == gddArgs.tempMin.value
        base == gddArgs.baseTemp.value
        cap == gddArgs.maxThreshold.value
        mean2 == ClampInto(tmax, base, cap) + ClampInto(tmin, base, cap)
    IN /\ ~gdd.nan
       /\ gdd.value >= 0
       /\ base <= cap =>
            /\ gdd.value = (IF mean2 - 2 * base > 0 THEN mean2 - 2 * base ELSE 0)
            /\ gdd.value <= 2 * (cap - base)
       /\ (tmax <= base /\ tmin <= base) => gdd.value = 0
       /\ (tmax = 250 /\ tmin = 150 /\ base = 100 /\ cap = 300) =>
            gdd.value = example

\* C20 as claimed: for all numeric tempMax, tempMin, baseTemp and
\* maxThreshold, calculateGDD returns a value >= 0 that equals
\* max(0, (clamp(tempMax) + clamp(tempMin)) / 2 - baseTemp) with clamp into
\* [baseTemp, maxThreshold]; it is 0 whenever tempMax <= baseTemp and
\* tempMin <= baseTemp; it never exceeds maxThreshold - baseTemp when
\* baseTemp <= maxThreshold; calculateGDD(25, 15, 10, 30) = 5.
C20_GrowingDegreeDaysAsClaimed == GddStatement(100)

\* C20 amended: the same statement, with calculateGDD(25, 15, 10, 30) = 10
\* (the mean of 25 and 15 is 20, minus the base 10).
C20_GrowingDegreeDays == GddStatement(200)

\* calculateGDD(25, 15, 10, 30) has been computed
C20_Witness ==
  /\ cpc = "done" /\ gddArgs # <<>> /\ NumericArguments
  /\ gddArgs.tempMax.value = 250 /\ gddArgs.tempMin.value = 150
  /\ gddArgs.baseTemp.value = 100 /\ gddArgs.maxThreshold.value = 300
  /\ gdd = [nan |-> FALSE, value |-> 200]

(***************************************************************************)
(* Properties of the precipitation analyser                                *)
(***************************************************************************)
\* the narrative of the forecast element: the text of its abbreviated
\* summary and of its summary
AbbreviatedNarrative == period.abbreviatedForecast.textSummary.text
Narrative == period.textSummary.text

MentionsRain ==
  \/ Includes(Narrative, <<"s", "h", "o", "w", "e", "r", "s">>)
  \/ Includes(Narrative, <<"r", "a", "i", "n">>)

\* C21: for every forecast period produced by the bulletin parser,
\* extractPoP applies its rules in priority order, the first match winning:
\* 'POP <int>%' in the abbreviated summary gives that integer; else
\* '<int> percent chance' in the text summary gives that integer; else a
\* summary mentioning 'showers' or 'rain' gives 30 with 'chance of' and 70
\* with 'periods of'; else 0.  A narrative 'POP 70%' yields 70, a narrative
\* without precipitation keywords yields 0.
C21_PopByPriority ==
  xpc = "done" =>
    pop.value =
      IF PopMatch(AbbreviatedNarrative).matched
      THEN ParseDigits(PopMatch(AbbreviatedNarrative).g1)
      ELSE IF PercentMatch(Narrative).matched
      THEN ParseDigits(PercentMatch(Narrative).g1)
      ELSE IF MentionsRain /\ Includes(Narrative, <<"c", "h", "a", "n", "c", "e", " ", "o", "f">>) THEN 30
      ELSE IF MentionsRain /\ Includes(Narrative, <<"p", "e", "r", "i", "o", "d", "s", " ", "o", "f">>) THEN 70
      ELSE 0

\* the amount the narrative gives in a unit: its bounds a and b (b = a
\* without a range)
NarrativeAmount(unit) ==
  LET m == AmountMatch(Narrative, unit)
  IN [given |-> m.matched,
      a |-> ParseDigits(m.g1),
      b |-> IF m.g2 # <<>> THEN ParseDigits(m.g2) ELSE ParseDigits(m.g1)]

\* C22: for every period whose narrative gives a rain amount 'a [to b] mm'
\* and/or a snow amount 'c [to d] cm', rain.expected is the midpoint
\* (a + b) / 2 (a without a range), snow.expected the midpoint (c + d) / 2,
\* total is rain.expected + 10 * snow.expected over the parts that matched
\* (null when neither matched), and the unit is 'mm water equivalent' iff
\* snow matched, else 'mm'.
C22_AmountsFromNarrative ==
  xpc = "done" =>
    LET r == NarrativeAmount(<<"m", "m">>)
        s == NarrativeAmount(<<"c", "m">>)
    IN /\ r.given => amounts.rain.matched /\ 2 * amounts.rain.expected = r.a + r.b
       /\ s.given => amounts.snow.matched /\ 2 * amounts.snow.expected = s.a + s.b
       /\ amounts.total =
            IF ~r.given /\ ~s.given THEN NoTotal
            ELSE (IF r.given THEN amounts.rain.expected ELSE 0)
                 + (IF s.given THEN 10 * amounts.snow.expected ELSE 0)
       /\ amounts.unit = IF s.given THEN "mm water equivalent" ELSE "mm"

\* the snapshot without its timestamp
WithoutTimestamp(s) == [ok |-> s.ok, temperature |-> s.temperature, source |-> s.source]

C24_UsernamesAreUnique ==
  /\ \A u, v \in Uids : u # v /\ farmers[u] # NoName => farmers[u] # farmers[v]
  /\ \A n \in Usernames : usernames[n] # NoUid => farmers[usernames[n]] = n

\* C30: generateUniqueUsername always terminates, after at most 1000
\* candidate checks plus one fallback check, and the username it returns is
\* one for which no usernames document existed when it was checked, for
\* every base name and every outcome of the Firestore lookups, including
\* lookups that fail and the case where the first 1000 candidates are taken.
C30_ReturnsCheckedUsername ==
  /\ gen.checks <= MaxAttempts
  /\ gen.fallbackChecks <= 1
  /\ gen.pc = "returned" => gen.verified

(***************************************************************************)
(* Properties of the crop history                                          *)
(***************************************************************************)
\* the last call replaced non-empty crops last updated in an earlier year
ReplacedEarlierCrops ==
  /\ lastUpdate.end = "updated"
  /\ lastUpdate.before.crops # NoCrops
  /\ lastUpdate.before.lastUpdated # NoYear
  /\ lastUpdate.before.lastUpdated < lastUpdate.year

\* C25: whenever updateCropData runs for an existing farmer whose stored
\* crops are non-empty and were last updated in a year earlier than year,
\* the transaction that overwrites farmDetails also writes
\* cropHistory/{lastUpdateYear} with the previously stored crops and
\* totalAcres; when the farmer profile does not exist the call fails with
\* 'Farmer profile not found.' and performs no write.
C25_ReplacedCropsAreArchived ==
  /\ ReplacedEarlierCrops =>
       LET old == cropHistory[lastUpdate.before.lastUpdated]
       IN /\ old.exists
          /\ old.crops = lastUpdate.before.crops
          /\ old.totalAcres = lastUpdate.before.totalAcres
  /\ (nupdates > 0 /\ ~lastUpdate.before.exists) =>
       /\ lastUpdate.end = "Farmer profile not found."
       /\ farm = lastUpdate.before
       /\ cropHistory = lastUpdate.historyBefore

C25_Witness ==
  /\ ReplacedEarlierCrops
  /\ lastUpdate.before.lastUpdated = lastUpdate.year - 1
  /\ farm.crops # lastUpdate.before.crops

\* C29: after any sequence of updateCropData calls for one farmer, every
\* cropHistory/{Y} document holds the crops that were stored as the
\* season-Y crops (written by the update whose year argument was Y): the
\* year under which crops are archived equals the season year they were
\* recorded for.
C29_ArchiveYearIsSeasonYear ==
  \A y \in HistoryYears :
    cropHistory[y].exists /\ cropHistory[y].season # NoYear =>
      cropHistory[y].season = y


\* the step in which the upstream request of a cached operation, or the
\* processing of its response, fails: the operation ends without a set
FetchFails(r) ==
  /\ req[r].op \in {"nasa", "weather"}
  /\ req[r].pc = "fetch" /\ req'[r].pc = "done"

\* C27: when the upstream request of a cached operation or the processing of
\* its response fails, the operation ends in an error and the cache is left
\* exactly as it was; an operation that ended in an error has written
\* nothing; and an entry is created or replaced only by the set of a request
\* whose fetch succeeded, with the value that request fetched.
C27_FailedFetchLeavesCache ==
  [][/\ \A r \in Reqs :
          /\ FetchFails(r) => (req'[r].result = Error /\ cache' = cache)
          /\ req'[r].result = Error => ~req'[r].wrote
     /\ \A k \in Keys :
          (cache'[k].exists /\ cache'[k] # cache[k])
            => \E r \in Reqs :
                 /\ SetStep(r) /\ req[r].key = k
                 /\ req[r].lookup = "absent" /\ req[r].fetchId > 0
                 /\ cache'[k].value = req[r].fetchId]_vars

\* a request missed, its upstream request failed and it ended in an error;
\* the entry another request stored under the key meanwhile is still there
C27_Witness ==
  \E r \in Reqs :
    /\ req[r].op \in {"nasa", "weather"}
    /\ req[r].pc = "done" /\ req[r].lookup = "absent"
    /\ req[r].fetchId > 0 /\ req[r].result = Error /\ ~req[r].wrote
    /\ cache[req[r].key].exists
    /\ cache[req[r].key].value # req[r].fetchId

\* C28: the delete issued by a lookup that read an expired entry never
\* removes an entry that is within its TTL at the moment of the delete: an
\* entry another request stored after the read stays in the cache.
C28_LazyExpiryDeletesOnlyExpired ==
  [][\A r \in Reqs :
       LET k == req[r].key
           d == cache[k] IN
       (DeleteStep(r) /\ d.exists /\ now - d.timestamp <= KeyTtl(k))
         => cache'[k] = d]_vars


\* the warm-up returned a 'fulfilled' result for the station
WarmedStation(st) ==
  /\ Warmed
  /\ \E i \in 1..Len(results) :
       results[i].status = "fulfilled" /\ results[i].station = st

\* C26: once warmStationsWithRateLimit has returned, every station with a
\* 'fulfilled' result has a cache entry, and the lookup of a getWeather
\* request for that station within the next 300 s (its read succeeding) is a
\* hit: no upstream request is issued.
C26_WarmedStationServedFromCache ==
  [][\A k \in WeatherKeys :
       WarmedStation(StationOf(k)) =>
         /\ ncalls = 0 => cache[k].exists
         /\ \A r \in Reqs :
              (/\ req[r].op = "weather" /\ req[r].key = k
               /\ LookupStep(r) /\ storeOk'
               /\ now <= WeatherTtl)
              => (req'[r].lookup = "hit" /\ nfetch' = nfetch)]_vars

====
